---- MODULE Spec2Model ----
(***************************************************************************)
(* FMO-Repeater: the FMO header codec (fmo_header.py) and the echo         *)
(* service's buffer / timeout / replay state machine                       *)
(* (fmo_echo_service.py), with the MQTT network thread(s) delivering       *)
(* messages and the main thread polling _check_timeout.                    *)
(*                                                                         *)
(* A packet is a sequence of bytes (0..255).  A Python str is a sequence   *)
(* of Unicode code points.                                                 *)
(***************************************************************************)
EXTENDS Integers, Sequences, FiniteSets, TLC

(***************************************************************************)
(* Bounds of the model.                                                    *)
(***************************************************************************)
MaxDeliveries == 3     \* _on_message calls over a run
MaxSignals == 1        \* SIGINT / SIGTERM delivered over a run
MaxTime == 6           \* last clock value time.time() takes: two timeouts fit

(***************************************************************************)
(* Program constants.                                                      *)
(***************************************************************************)
VERSION_SIZE == 4
UID_SIZE == 2
CALLSIGN_SIZE == 12
PADDING_SIZE_1 == 2
PADDING_SIZE_2 == 2
HEADER_SIZE == VERSION_SIZE + PADDING_SIZE_1 + UID_SIZE + PADDING_SIZE_2 + CALLSIGN_SIZE

MQTT_ERR_SUCCESS == "MQTT_ERR_SUCCESS"   \* paho's rc of a publish that worked
RelayUid == 65535               \* config['echo']['uid']
Timeout == 2                    \* config['echo']['timeout'] (test configuration)
CallsignPrefix == <<82, 69, 62>>  \* config['echo']['callsign_prefix'] = "RE>"
PublishTopic == "TEST/FMO/RAW"  \* config['topics']['publish']
ReplacementChar == 65533        \* U+FFFD, what errors='replace' substitutes

\* Python's None and a present value v, for variables that hold either
None == <<>>
Some(v) == <<v>>
Val(o) == o[1]

(***************************************************************************)
(* Sequence helpers (Python slicing).                                      *)
(***************************************************************************)
Take(s, n) == SubSeq(s, 1, IF n < Len(s) THEN n ELSE Len(s))
Drop(s, n) == SubSeq(s, n + 1, Len(s))

(***************************************************************************)
(* struct "<I" / "<H": little-endian unsigned integers.                    *)
(***************************************************************************)
RECURSIVE UnpackLE(_)
UnpackLE(b) == IF b = <<>> THEN 0 ELSE b[1] + 256 * UnpackLE(Tail(b))

RECURSIVE PackLE(_, _)
PackLE(n, width) ==
    IF width = 0 THEN <<>> ELSE <<n % 256>> \o PackLE(n \div 256, width - 1)

\* struct.pack raises struct.error when the value does not fit the format
\* (2 bytes: n < 2^16; 4 bytes: n < 2^32, written so that no number above
\* 2^31 - 1 is needed, which is also the largest version the model uses).
Fits(n, width) ==
    n >= 0 /\ (width = 2 => n < 65536) /\ (width = 4 => n \div 65536 < 65536)

(***************************************************************************)
(* str.encode('utf-8'): one to four bytes per code point.                  *)
(***************************************************************************)
EncodeCodePoint(c) ==
    IF c < 128 THEN <<c>>
    ELSE IF c < 2048 THEN <<192 + (c \div 64), 128 + (c % 64)>>
    ELSE IF c < 65536 THEN
        <<224 + (c \div 4096), 128 + ((c \div 64) % 64), 128 + (c % 64)>>
    ELSE <<240 + (c \div 262144), 128 + ((c \div 4096) % 64),
           128 + ((c \div 64) % 64), 128 + (c % 64)>>

RECURSIVE Utf8Encode(_)
Utf8Encode(s) ==
    IF s = <<>> THEN <<>> ELSE EncodeCodePoint(s[1]) \o Utf8Encode(Tail(s))

(***************************************************************************)
(* bytes.decode('utf-8', errors='replace'): CPython's decoder.  At each    *)
(* position it yields either a code point and the bytes it consumed, or    *)
(* U+FFFD for the invalid bytes: one invalid start byte, the valid prefix  *)
(* of a sequence broken by a bad continuation byte, or all the remaining   *)
(* bytes of a sequence cut short by the end of the data.                   *)
(***************************************************************************)
IsCont(b) == b >= 128 /\ b < 192

\* <<code point, bytes consumed>> for the non-empty byte sequence b
DecodeOne(b) ==
    LET ch == b[1]
        n  == Len(b)
        bad2of3 == ~IsCont(b[2]) \/ (ch = 224 /\ b[2] < 160) \/ (ch = 237 /\ b[2] >= 160)
        bad2of4 == ~IsCont(b[2]) \/ (ch = 240 /\ b[2] < 144) \/ (ch = 244 /\ b[2] >= 144)
    IN  IF ch < 128 THEN <<ch, 1>>
        ELSE IF ch < 194 THEN <<ReplacementChar, 1>>
        ELSE IF ch < 224 THEN
            IF n < 2 THEN <<ReplacementChar, n>>
            ELSE IF ~IsCont(b[2]) THEN <<ReplacementChar, 1>>
            ELSE <<(ch - 192) * 64 + (b[2] - 128), 2>>
        ELSE IF ch < 240 THEN
            IF n < 2 THEN <<ReplacementChar, n>>
            ELSE IF bad2of3 THEN <<ReplacementChar, 1>>
            ELSE IF n < 3 THEN <<ReplacementChar, n>>
            ELSE IF ~IsCont(b[3]) THEN <<ReplacementChar, 2>>
            ELSE <<(ch - 224) * 4096 + (b[2] - 128) * 64 + (b[3] - 128), 3>>
        ELSE IF ch < 245 THEN
            IF n < 2 THEN <<ReplacementChar, n>>
            ELSE IF bad2of4 THEN <<ReplacementChar, 1>>
            ELSE IF n < 3 THEN <<ReplacementChar, n>>
            ELSE IF ~IsCont(b[3]) THEN <<ReplacementChar, 2>>
            ELSE IF n < 4 THEN <<ReplacementChar, n>>
            ELSE IF ~IsCont(b[4]) THEN <<ReplacementChar, 3>>
            ELSE <<(ch - 240) * 262144 + (b[2] - 128) * 4096
                     + (b[3] - 128) * 64 + (b[4] - 128), 4>>
        ELSE <<ReplacementChar, 1>>

RECURSIVE Utf8DecodeReplace(_)
Utf8DecodeReplace(b) ==
    IF b = <<>> THEN <<>>
    ELSE LET r == DecodeOne(b) IN <<r[1]>> \o Utf8DecodeReplace(Drop(b, r[2]))

\* bytes.rstrip(b'\x00')
RECURSIVE RStripNul(_)
RStripNul(b) ==
    IF b = <<>> THEN <<>>
    ELSE IF b[Len(b)] = 0 THEN RStripNul(SubSeq(b, 1, Len(b) - 1))
    ELSE b

\* bytes.ljust(width, b'\x00')
RECURSIVE LJustNul(_, _)
LJustNul(b, width) == IF Len(b) >= width THEN b ELSE LJustNul(b \o <<0>>, width)

(***************************************************************************)
(* FMORawHeader                                                            *)
(***************************************************************************)
FMORawHeader(version, uid, callsign, padding1, padding2) ==
    [version |-> version, uid |-> uid, callsign |-> callsign,
     padding1 |-> padding1, padding2 |-> padding2]

\* (variant: the callsign is decoded with errors='strict')
FromBytesRaisesStrict(data) ==
    \/ Len(data) < HEADER_SIZE
    \/ LET b == RStripNul(SubSeq(data, 11, 22))
       IN  Utf8Encode(Utf8DecodeReplace(b)) # b
\* (variant: exactly HEADER_SIZE bytes are refused too)
FromBytesRaisesInclusive(data) == Len(data) <= HEADER_SIZE
\* from_bytes raises ValueError on fewer than HEADER_SIZE bytes
FromBytesRaises(data) == Len(data) < HEADER_SIZE

\* (variant: the uid is read before padding1)
FromBytesUidFirst(data) ==
    LET hdr == Take(data, HEADER_SIZE)
    IN  FMORawHeader(UnpackLE(SubSeq(hdr, 1, 4)), UnpackLE(SubSeq(hdr, 5, 6)),
                     Utf8DecodeReplace(RStripNul(SubSeq(hdr, 11, 22))),
                     UnpackLE(SubSeq(hdr, 7, 8)), UnpackLE(SubSeq(hdr, 9, 10)))
\* (variant: the callsign is read through the first byte of the payload)
FromBytesPeeks(data) ==
    LET hdr == Take(data, HEADER_SIZE + 1)
    IN  FMORawHeader(UnpackLE(SubSeq(hdr, 1, 4)), UnpackLE(SubSeq(hdr, 7, 8)),
                     Utf8DecodeReplace(RStripNul(SubSeq(hdr, 11, Len(hdr)))),
                     UnpackLE(SubSeq(hdr, 5, 6)), UnpackLE(SubSeq(hdr, 9, 10)))
\* (variant: the padding is not stripped before decoding)
FromBytesNoStrip(data) ==
    LET hdr == Take(data, HEADER_SIZE)
    IN  FMORawHeader(UnpackLE(SubSeq(hdr, 1, 4)), UnpackLE(SubSeq(hdr, 7, 8)),
                     Utf8DecodeReplace(SubSeq(hdr, 11, 22)),
                     UnpackLE(SubSeq(hdr, 5, 6)), UnpackLE(SubSeq(hdr, 9, 10)))
from_bytes(data) ==
    LET hdr == Take(data, HEADER_SIZE)
        version  == UnpackLE(SubSeq(hdr, 1, 4))
        padding1 == UnpackLE(SubSeq(hdr, 5, 6))
        uid      == UnpackLE(SubSeq(hdr, 7, 8))
        padding2 == UnpackLE(SubSeq(hdr, 9, 10))
        callsign_bytes == SubSeq(hdr, 11, 22)
        callsign == Utf8DecodeReplace(RStripNul(callsign_bytes))
    IN  FMORawHeader(version, uid, callsign, padding1, padding2)

\* to_bytes raises struct.error when a numeric field is out of range
ToBytesRaises(h) ==
    ~(Fits(h.version, 4) /\ Fits(h.padding1, 2) /\ Fits(h.uid, 2) /\ Fits(h.padding2, 2))

\* to_bytes with self.CALLSIGN_SIZE = size; struct's "12s" then cuts or
\* NUL-pads the callsign to 12 bytes whatever it was given.
ToBytesSized(h, size) ==
    LET callsign_encoded == Take(Utf8Encode(h.callsign), size)
        callsign_padded  == LJustNul(callsign_encoded, size)
    IN  PackLE(h.version, 4) \o PackLE(h.padding1, 2) \o PackLE(h.uid, 2)
          \o PackLE(h.padding2, 2)
          \o LJustNul(Take(callsign_padded, CALLSIGN_SIZE), CALLSIGN_SIZE)

\* (variant: a short callsign is not padded)
ToBytesUnpadded(h) ==
    PackLE(h.version, 4) \o PackLE(h.padding1, 2) \o PackLE(h.uid, 2)
      \o PackLE(h.padding2, 2) \o Take(Utf8Encode(h.callsign), CALLSIGN_SIZE)
to_bytes(h) == ToBytesSized(h, CALLSIGN_SIZE)

(***************************************************************************)
(* replace_header_in_stream(stream, **updates): updates is a function from *)
(* keyword names to values.  hasattr(header, key) holds for the five       *)
(* fields set by __init__ and also for every attribute of the class: the   *)
(* size constants and the methods (and the dunder names every object has,  *)
(* which the model leaves out).  setattr on a class attribute shadows it   *)
(* on the instance: a shadowed CALLSIGN_SIZE changes what to_bytes cuts    *)
(* the callsign to, a shadowed to_bytes makes the call header.to_bytes()   *)
(* raise TypeError (the values of the model are not callable), and the     *)
(* other names are stored and never read.                                  *)
(***************************************************************************)
HeaderFields == {"version", "uid", "callsign", "padding1", "padding2"}
ClassAttrs == {"VERSION_SIZE", "UID_SIZE", "CALLSIGN_SIZE", "PADDING_SIZE_1",
               "PADDING_SIZE_2", "HEADER_SIZE", "from_bytes", "to_bytes"}

HasAttr(key) == key \in HeaderFields \cup ClassAttrs

UpdatedHeader(header, updates) ==
    [k \in HeaderFields |-> IF k \in DOMAIN updates THEN updates[k] ELSE header[k]]

UpdatedCallsignSize(updates) ==
    IF "CALLSIGN_SIZE" \in DOMAIN updates THEN updates["CALLSIGN_SIZE"] ELSE CALLSIGN_SIZE

ReplaceRaises(stream, updates) ==
    \/ FromBytesRaises(stream)
    \/ \E k \in DOMAIN updates : ~HasAttr(k)
    \/ "to_bytes" \in DOMAIN updates
    \/ ToBytesRaises(UpdatedHeader(from_bytes(stream), updates))

\* the exception a call raises, in the order the statements run: from_bytes
\* first, then the hasattr test of each key, then header.to_bytes()
NoError == ""
ReplaceError(stream, updates) ==
    IF FromBytesRaises(stream) THEN "ValueError"
    ELSE IF \E k \in DOMAIN updates : ~HasAttr(k) THEN "AttributeError"
    ELSE IF "to_bytes" \in DOMAIN updates THEN "TypeError"
    ELSE IF ToBytesRaises(UpdatedHeader(from_bytes(stream), updates)) THEN "struct.error"
    ELSE NoError

\* (variant: the payload is taken from one byte before the end of the header)
ReplaceOffByOne(stream, updates) ==
    LET header     == UpdatedHeader(from_bytes(stream), updates)
        new_header == ToBytesSized(header, UpdatedCallsignSize(updates))
        payload    == Drop(stream, HEADER_SIZE - 1)
    IN  new_header \o payload
replace_header_in_stream(stream, updates) ==
    LET header     == UpdatedHeader(from_bytes(stream), updates)
        new_header == ToBytesSized(header, UpdatedCallsignSize(updates))
        payload    == Drop(stream, HEADER_SIZE)
    IN  new_header \o payload

(***************************************************************************)
(* Inputs: the packets the broker delivers.                                *)
(***************************************************************************)
\* {version=1, uid=441, callsign="BD8BOJ"} + payload DE AD BE EF
TestMsg == <<1, 0, 0, 0,  0, 0,  185, 1,  0, 0,
             66, 68, 56, 66, 79, 74, 0, 0, 0, 0, 0, 0,  222, 173, 190, 239>>
\* the relay's own output: uid=65535, callsign="RE>BD8BOJ"
EchoMsg == <<1, 0, 0, 0,  0, 0,  255, 255,  0, 0,
             82, 69, 62, 66, 68, 56, 66, 79, 74, 0, 0, 0,  222, 173, 190, 239>>
\* fewer than 22 bytes
ShortMsg == <<1, 0, 0, 0,  0, 0,  185, 1>>
\* {version=1, uid=442, callsign="BD8BO" + U+4E2D + U+6587} + payload 00:
\* an 11-byte callsign, which the prefix makes longer than 12 bytes
WideMsg == <<1, 0, 0, 0,  0, 0,  186, 1,  0, 0,
             66, 68, 56, 66, 79, 228, 184, 173, 230, 150, 135, 0,  0>>

Packets == {TestMsg, EchoMsg, ShortMsg, WideMsg}

\* what mqtt_client.publish does: returns rc = MQTT_ERR_SUCCESS, returns
\* another rc, or raises (self.mqtt_client is None, the client fails)
PublishOutcomes == {MQTT_ERR_SUCCESS, "MQTT_ERR_NO_CONN", "raise"}

(***************************************************************************)
(* Inputs of direct calls of the codec (to_bytes, from_bytes,              *)
(* replace_header_in_stream), as the header tests make them.               *)
(***************************************************************************)
\* code points of 1, 2, 3 and 4 UTF-8 bytes, and U+0000
CodecChars == {0, 65, 233, 20013, 128512}
CodecTails ==
    {<<>>} \cup {<<c>> : c \in CodecChars} \cup {<<c, d>> : c, d \in CodecChars}
\* callsigns of 0 to 8 bytes, and of 10 to 18 bytes
CodecCallsigns == {stem \o tail : stem \in {<<>>, [i \in 1..10 |-> 65]}, tail \in CodecTails}

CodecHeaders ==
    {FMORawHeader(version, uid, callsign, padding1, padding2) :
        version \in {1, 2147483647}, uid \in {441, 65535, 65536},
        callsign \in CodecCallsigns, padding1 \in {0, 43981}, padding2 \in {0, 65535}}

\* the 12 callsign bytes of a packet: text, text with an inner NUL, all NUL,
\* 12 bytes of text, bytes that are not UTF-8, a sequence cut by the end
CodecCallsignBytes ==
    {<<66, 68, 56, 66, 79, 74, 0, 0, 0, 0, 0, 0>>,
     <<65, 0, 66, 0, 0, 0, 0, 0, 0, 0, 0, 0>>,
     <<0, 0, 0, 0, 0, 0, 0, 0, 0, 0, 0, 0>>,
     <<66, 68, 56, 66, 79, 74, 45, 80, 79, 82, 84, 49>>,
     <<255, 66, 192, 128, 237, 160, 128, 65, 0, 0, 0, 0>>,
     <<82, 69, 62, 66, 68, 56, 66, 79, 228, 184, 173, 230>>}
CodecPayloads == {<<>>, <<0>>, <<222, 173, 190, 239>>}

CodecStreams ==
    {PackLE(1, 4) \o PackLE(padding1, 2) \o PackLE(uid, 2) \o PackLE(0, 2)
        \o callsign_bytes \o payload :
        padding1 \in {0, 43981}, uid \in {441, 65535},
        callsign_bytes \in CodecCallsignBytes, payload \in CodecPayloads}
    \cup {<<>>, ShortMsg, Take(TestMsg, HEADER_SIZE - 1)}

\* the keyword names of a replace_header_in_stream call, and their values
CodecKeySets ==
    {{}, {"uid"}, {"callsign"}, {"uid", "callsign"},
     {"version", "padding1", "padding2"}, {"nosuch"}, {"uid", "nosuch"},
     {"HEADER_SIZE"}, {"CALLSIGN_SIZE", "callsign"}, {"to_bytes"}}
CodecValues ==
    {[version |-> 2, uid |-> uid, callsign |-> callsign, padding1 |-> 51966,
      padding2 |-> 1, other |-> 4] :
        uid \in {65535, 65536},
        callsign \in {<<82, 69, 62, 66, 68, 56, 66, 79, 74>>,
                      <<82, 69, 62, 66, 68, 56, 66, 79, 20013, 25991>>}}

NoCall == [op |-> "none", header |-> FMORawHeader(0, 0, <<>>, 0, 0), stream |-> <<>>,
           keys |-> {}, values |-> [version |-> 0, uid |-> 0, callsign |-> <<>>,
                                    padding1 |-> 0, padding2 |-> 0, other |-> 0]]

CodecCalls ==
    {[NoCall EXCEPT !.op = "to_bytes", !.header = h] : h \in CodecHeaders}
    \cup {[NoCall EXCEPT !.op = "from_bytes", !.stream = d] : d \in CodecStreams}
    \cup {[NoCall EXCEPT !.op = "replace_header_in_stream", !.stream = d,
                         !.keys = ks, !.values = vs] :
             d \in CodecStreams, ks \in CodecKeySets, vs \in CodecValues}

\* the **updates of a call
UpdatesOf(call) ==
    [k \in call.keys |-> IF k \in HeaderFields THEN call.values[k] ELSE call.values.other]

(***************************************************************************)
(* config.py: the configuration dictionary and validate_config.  A value   *)
(* of the dictionary is a Python object: its type (NaN is the float that   *)
(* compares false with everything), its number (a float in tenths, a bool  *)
(* as 0 or 1) and its text.  A key that is absent reads as None, which is  *)
(* what dict.get returns for it.                                           *)
(***************************************************************************)
IntV(n) == [t |-> "int", n |-> n, s |-> ""]
BoolV(b) == [t |-> "bool", n |-> IF b THEN 1 ELSE 0, s |-> ""]
FloatV(tenths) == [t |-> "float", n |-> tenths, s |-> ""]
NaN == [t |-> "nan", n |-> 0, s |-> ""]
StrV(s) == [t |-> "str", n |-> 0, s |-> s]
NoneV == [t |-> "none", n |-> 0, s |-> ""]

\* bool(v)
Truthy(v) ==
    CASE v.t = "none" -> FALSE
      [] v.t = "str" -> v.s # ""
      [] v.t = "nan" -> TRUE
      [] OTHER -> v.n # 0
\* isinstance(v, int): bool is a subclass of int
IsInstanceInt(v) == v.t \in {"int", "bool"}
\* isinstance(v, (int, float))
IsInstanceNumber(v) == v.t \in {"int", "bool", "float", "nan"}
\* lo <= v for a number v
GreaterEq(v, lo) == v.t # "nan" /\ (IF v.t = "float" THEN v.n >= 10 * lo ELSE v.n >= lo)
\* v <= hi for a number v
LessEq(v, hi) == v.t # "nan" /\ (IF v.t = "float" THEN v.n <= 10 * hi ELSE v.n <= hi)

RequiredSections == {"mqtt", "topics", "echo", "logging"}
ValidLevels == {"DEBUG", "INFO", "WARNING", "ERROR", "CRITICAL"}

DEFAULT_CONFIG ==
    [sections |-> {"mqtt", "topics", "echo", "logging", "daemon"},
     broker |-> StrV("localhost"), port |-> IntV(1883),
     subscribe |-> StrV("FMO/RAW"), publish |-> StrV("FMO/RAW"),
     timeout |-> FloatV(50), uid |-> IntV(65535), callsign_prefix |-> StrV("RE>"),
     level |-> StrV("INFO")]

\* the check of validate_config that raises ValueError, in the order the
\* checks are made; NoError when the call returns True
ValidateError(c) ==
    IF ~(RequiredSections \subseteq c.sections) THEN "section"
    ELSE IF ~Truthy(c.broker) THEN "broker"
    ELSE IF ~IsInstanceInt(c.port) \/ ~(GreaterEq(c.port, 1) /\ LessEq(c.port, 65535))
        THEN "port"
    ELSE IF ~Truthy(c.subscribe) THEN "subscribe"
    ELSE IF ~Truthy(c.publish) THEN "publish"
    ELSE IF ~IsInstanceNumber(c.timeout) \/ LessEq(c.timeout, 0) THEN "timeout"
    ELSE IF ~IsInstanceInt(c.uid) \/ ~(GreaterEq(c.uid, 0) /\ LessEq(c.uid, 65535))
        THEN "uid"
    ELSE IF c.callsign_prefix.t # "str" THEN "callsign_prefix"
    ELSE IF ~(c.level.t = "str" /\ c.level.s \in ValidLevels) THEN "level"
    ELSE NoError

validate_config(c) == IF ValidateError(c) = NoError THEN "True" ELSE "ValueError"

\* the values a key of the model's configurations takes
ConfigValues ==
    {NoneV, NaN, BoolV(TRUE), BoolV(FALSE), StrV(""), StrV("localhost"),
     StrV("INFO"), StrV("info"), StrV("TRACE"), StrV("CRITICAL")}
    \cup {IntV(n) : n \in {0 - 1, 0, 1, 5, 1883, 65535, 65536, 70000, 99999}}
    \cup {FloatV(tenths) : tenths \in {0 - 10, 0, 5, 50, 18830}}
ConfigKeys == {"broker", "port", "subscribe", "publish", "timeout", "uid",
               "callsign_prefix", "level"}

\* the default configuration with one key changed, with sections removed, or
\* both
Configs ==
    {[[DEFAULT_CONFIG EXCEPT ![k] = v] EXCEPT !.sections = ss] :
        k \in ConfigKeys, v \in ConfigValues,
        ss \in {DEFAULT_CONFIG.sections} \cup
               {DEFAULT_CONFIG.sections \ {x} : x \in DEFAULT_CONFIG.sections}
               \cup {{"mqtt"}}}

(***************************************************************************)
(* Threads: the threads that run the _on_message callback, and the main    *)
(* thread, which polls _check_timeout in run().                            *)
(***************************************************************************)
Producers == {"net1", "net2"}
Main == "main"
Threads == Producers \cup {Main}
Free == "free"
Off == 0 - 1

(***************************************************************************)
(* deep_merge.  A configuration value is a tree: a leaf (a number that     *)
(* stands for any value that is not a dictionary) or a dictionary from     *)
(* keys to trees.  Python dictionaries are objects, shared by reference:   *)
(* the heap is a sequence of dictionary objects, an object's identity is   *)
(* its index, and an item of an object is either a plain value or a        *)
(* reference to another object, so that a write into an argument of        *)
(* deep_merge is visible in the heap.                                      *)
(***************************************************************************)
EmptyDict == [k \in {} |-> 0]
Leaf(n) == [isdict |-> FALSE, leaf |-> n, items |-> EmptyDict]
Dict(items) == [isdict |-> TRUE, leaf |-> 0, items |-> items]

\* the keys of the dictionaries below; a dictionary is iterated in this
\* order (the merged mapping does not depend on the order)
KeyOrder == <<"a", "b", "c", "d", "e", "f">>
KeysOf(d) == SelectSeq(KeyOrder, LAMBDA k : k \in DOMAIN d)

\* d[key] = value
SetItem(d, key, value) ==
    [k \in DOMAIN d \cup {key} |-> IF k = key THEN value ELSE d[k]]

\* an item of a dictionary object: a plain value, or a reference
Obj(v) == [ref |-> FALSE, v |-> v]
Ref(id) == [ref |-> TRUE, v |-> id]

RECURSIVE Alloc(_, _)
RECURSIVE AllocItems(_, _, _, _)
\* the heap once the dictionary `items` is constructed in it, and its identity
Alloc(heap, items) ==
    LET id == Len(heap) + 1
    IN  [heap |-> AllocItems(Append(heap, EmptyDict), id, items, KeysOf(items)),
         id |-> id]

AllocItems(heap, id, items, keys) ==
    IF keys = <<>> THEN heap
    ELSE LET key == Head(keys)
             node == items[key]
         IN  IF node.isdict
             THEN LET sub == Alloc(heap, node.items)
                  IN  AllocItems([sub.heap EXCEPT
                                     ![id] = SetItem(@, key, Ref(sub.id))],
                                 id, items, Tail(keys))
             ELSE AllocItems([heap EXCEPT
                                 ![id] = SetItem(@, key, Obj(node.leaf))],
                             id, items, Tail(keys))

RECURSIVE TreeOf(_, _)
\* the dictionary that object `id` of the heap holds, read through its
\* references
TreeOf(heap, id) ==
    [k \in DOMAIN heap[id] |->
        IF heap[id][k].ref THEN Dict(TreeOf(heap, heap[id][k].v))
        ELSE Leaf(heap[id][k].v)]

RECURSIVE deep_merge(_, _, _)
RECURSIVE MergeItems(_, _, _, _)

\* deep_merge without base.copy(): the override is written into base
DeepMergeInPlace(heap, base, override) ==
    [heap |-> MergeItems(heap, base, override, KeysOf(heap[override])),
     result |-> base]

\* deep_merge(base, override): result = base.copy(), the loop over
\* override.items(), return result.  Gives the heap after the call and the
\* identity of the returned dictionary.
deep_merge(heap, base, override) ==
    LET result == Len(heap) + 1
    IN  [heap |-> MergeItems(Append(heap, heap[base]), result, override,
                             KeysOf(heap[override])),
         result |-> result]

\* the loop of deep_merge over the remaining keys of override
MergeItems(heap, result, override, keys) ==
    IF keys = <<>> THEN heap
    ELSE LET key == Head(keys)
             value == heap[override][key]
         IN  IF /\ key \in DOMAIN heap[result]
                /\ heap[result][key].ref
                /\ value.ref
             THEN LET sub == deep_merge(heap, heap[result][key].v, value.v)
                  IN  MergeItems([sub.heap EXCEPT
                                     ![result] = SetItem(@, key, Ref(sub.result))],
                                 result, override, Tail(keys))
             ELSE MergeItems([heap EXCEPT ![result] = SetItem(@, key, value)],
                             result, override, Tail(keys))

\* the dictionaries of the merge test
TestBase ==
    [a |-> Leaf(1), b |-> Dict([c |-> Leaf(2), d |-> Leaf(3)]), e |-> Leaf(4)]
TestOverride ==
    [b |-> Dict([c |-> Leaf(99)]), e |-> Leaf(5), f |-> Leaf(6)]

\* the dictionaries deep_merge is called on: up to three levels deep, a key
\* that is a dictionary on one side and a plain value on the other included
MergeTrees ==
    LET InnerTrees == {EmptyDict, [a |-> Leaf(1)], [a |-> Leaf(2), b |-> Leaf(3)]}
        MidTrees ==
            InnerTrees \cup {[a |-> Dict(i)] : i \in InnerTrees}
                       \cup {[a |-> Leaf(4), c |-> Dict(i)] : i \in InnerTrees}
    IN  MidTrees \cup {[b |-> Dict(m), c |-> Leaf(5)] : m \in MidTrees}
                 \cup {TestBase, TestOverride}

\* the heap in which the two arguments of a call are constructed, base first
MergeHeap(call) == Alloc(Alloc(<<>>, call.base).heap, call.override).heap
BaseId == 1
OverrideId(call) == Len(Alloc(<<>>, call.base).heap) + 1

(***************************************************************************)
(* The daemon's PID file.  The file is absent, or holds a text; a text is  *)
(* a sequence of characters.  gen tells the files created under the name   *)
(* apart: a process that has opened the file writes to the file it opened, *)
(* also after that file was removed.                                       *)
(***************************************************************************)
Absent == [exists |-> FALSE, text |-> <<>>, gen |-> 0]
File(text) == [exists |-> TRUE, text |-> text, gen |-> 1]

DigitChars == <<"0", "1", "2", "3", "4", "5", "6", "7", "8", "9">>

\* str(n), for n >= 0
RECURSIVE Str(_)
Str(n) == IF n < 10 THEN <<DigitChars[n + 1]>>
          ELSE Str(n \div 10) \o <<DigitChars[(n % 10) + 1]>>

\* text.strip()
RECURSIVE Strip(_)
Strip(text) ==
    LET IsSpace(c) == c \in {" ", "\n", "\t", "\r"}
    IN  IF text = <<>> THEN <<>>
        ELSE IF IsSpace(Head(text)) THEN Strip(Tail(text))
        ELSE IF IsSpace(text[Len(text)]) THEN Strip(SubSeq(text, 1, Len(text) - 1))
        ELSE text

\* int(text) raises ValueError: the text is not a run of digits
IntRaises(text) ==
    \/ text = <<>>
    \/ \E i \in DOMAIN text : \A d \in DOMAIN DigitChars : DigitChars[d] # text[i]

\* int(text), for a run of digits
RECURSIVE Int_(_)
Int_(text) ==
    IF text = <<>> THEN 0
    ELSE LET last == text[Len(text)]
             value == (CHOOSE d \in DOMAIN DigitChars : DigitChars[d] = last) - 1
         IN  10 * Int_(SubSeq(text, 1, Len(text) - 1)) + value

\* get_pid_from_file: the number in the file, None (IOError, ValueError) if
\* the file is absent or does not hold a number
get_pid_from_file(file) ==
    IF ~file.exists \/ IntRaises(Strip(file.text)) THEN None
    ELSE Some(Int_(Strip(file.text)))

\* f"{pid}\n"
PidText(pid) == Str(pid) \o <<"\n">>

\* the processes that call Daemon.start on the same PID file, and the
\* process id each one has after its two forks
Starters == {"start1", "start2"}
DaemonPid == [s \in Starters |-> IF s = "start1" THEN 4711 ELSE 4712]

\* what the PID file can be before the first start: absent; left by a
\* daemon that was killed; empty; not a number
PidFiles == {Absent, File(PidText(4242)), File(<<>>), File(<<"p", "i", "d">>)}

VARIABLES
    message_buffer,     \* self.message_buffer
    last_message_time,  \* self.last_message_time (None or a clock value)
    buffer_lock,        \* self.buffer_lock: Free or the thread holding it
    now,                \* the value time.time() returns
    pc,                 \* where each thread is
    msg,                \* msg.payload of the _on_message call of each producer
    deliveries,         \* number of _on_message calls made so far
    idx,                \* _replay_messages: position of the loop in the list
    success_count,      \* _replay_messages' local
    fail_count,         \* _replay_messages' local
    published,          \* the calls mqtt_client.publish received
    report,             \* the counts logged by the _replay_messages call of
                        \* the _check_timeout call in progress
    accepted,           \* history: the packets appended, in order
    last_accept,        \* history: the clock value read by the latest accept
    ignored,            \* history: deliveries dropped as the relay's own
    echoed,             \* history: of these, the deliveries of a packet the
                        \* relay itself had published
    errors,             \* history: deliveries whose exception was logged
    refresh_run,        \* history: k when the accepts so far were k accepts
                        \* made at times 0, 1, .., k-1; Off otherwise
    batches,            \* history: the packets each replay iterated over
    results,            \* history: how each iteration of the replay in
                        \* progress ended (a publish outcome, or "raise")
    running,            \* self.running
    client,             \* self.mqtt_client: "none" before connect(), "started"
                        \* once loop_start() has run, "stopped" after
                        \* loop_stop() and disconnect()
    stop_pc,            \* where the stop() call in progress is ("none": no call)
    signals,            \* SIGINT / SIGTERM delivered so far
    codec_call,         \* a direct call of the header codec: its arguments
    codec_pc,           \* "start", "returned", "raised" or "decoded"
    codec_ret,          \* what the call returned
    codec_exc,          \* the exception the call raised
    codec_back,         \* from_bytes of the bytes the call returned
    config,             \* the configuration dictionary given to validate_config
    validated,          \* "no" before the call, then "True" or the exception
    merge_call,         \* a direct call of deep_merge: its two dictionaries
    merge_heap,         \* the dictionary objects of that call
    merge_ret,          \* the identity of the dictionary returned (0: none yet)
    pid_file,           \* the daemon's PID file
    daemon_pc           \* where each process that called Daemon.start is

vars == <<message_buffer, last_message_time, buffer_lock, now, pc, msg,
          deliveries, idx, success_count, fail_count, published,
          report, accepted, last_accept, ignored, echoed, errors, refresh_run,
          batches, results, running, client, stop_pc, signals,
          codec_call, codec_pc, codec_ret, codec_exc, codec_back,
          config, validated, merge_call, merge_heap, merge_ret,
          pid_file, daemon_pc>>

daemon_vars == <<pid_file, daemon_pc>>
merge_vars == <<merge_call, merge_heap, merge_ret>>
config_vars == <<config, validated, merge_vars>>
codec_vars == <<codec_call, codec_pc, codec_ret, codec_exc, codec_back>>
service_vars == <<message_buffer, last_message_time, buffer_lock, now, pc, msg,
                  deliveries, idx, success_count, fail_count, published,
                  report, accepted, last_accept, ignored, echoed, errors,
                  refresh_run, batches, results, running, client, stop_pc,
                  signals>>
stop_vars == <<running, client, stop_pc, signals>>
buffer_vars == <<message_buffer, last_message_time>>
replay_vars == <<idx, success_count, fail_count, published, report, batches,
                 results>>
history_vars == <<accepted, last_accept, ignored, echoed, errors, refresh_run>>

\* no direct call of the codec is made
CodecIdle ==
    /\ codec_call = NoCall
    /\ codec_pc = "off"
    /\ codec_ret = <<>>
    /\ codec_exc = NoError
    /\ codec_back = None

\* Daemon.start is not called: the service runs in the foreground
DaemonIdle ==
    /\ pid_file = Absent
    /\ daemon_pc = [s \in Starters |-> [at |-> "off", fd |-> 0]]

\* validate_config is not called: the configuration is the default one
ConfigIdle ==
    /\ config = DEFAULT_CONFIG
    /\ validated = "no"
    /\ merge_call = [base |-> EmptyDict, override |-> EmptyDict]
    /\ merge_heap = <<>>
    /\ merge_ret = 0

\* run() has not been called, nor connect(), nor stop()
Unstarted ==
    /\ running = FALSE
    /\ client = "none"
    /\ stop_pc = "none"
    /\ signals = 0

\* the service as __init__ leaves it; the main thread has yet to call run()
Constructed ==
    /\ Unstarted
    /\ message_buffer = <<>>
    /\ last_message_time = None
    /\ buffer_lock = Free
    /\ now = 0
    /\ pc = [t \in Threads |-> IF t = Main THEN "created" ELSE "idle"]
    /\ msg = [p \in Producers |-> None]
    /\ deliveries = 0
    /\ idx = 0
    /\ success_count = 0
    /\ fail_count = 0
    /\ published = <<>>
    /\ report = None
    /\ accepted = <<>>
    /\ last_accept = None
    /\ refresh_run = 0
    /\ ignored = 0
    /\ echoed = 0
    /\ errors = 0
    /\ batches = <<>>
    /\ results = <<>>

Init == Constructed /\ CodecIdle /\ ConfigIdle /\ DaemonIdle

\* time passes
Tick ==
    /\ now < MaxTime
    /\ now' = now + 1
    /\ UNCHANGED <<daemon_vars, config_vars, codec_vars, stop_vars,
                   message_buffer, last_message_time, buffer_lock, pc, msg,
                   deliveries, idx, success_count, fail_count,
                   published, report, accepted, last_accept, ignored, echoed, errors,
                   refresh_run, batches, results>>

(***************************************************************************)
(* _on_message                                                             *)
(***************************************************************************)
\* header = from_bytes(msg.payload) raises: the except clause logs the error
LogsError(m) == FromBytesRaises(m)
\* header.uid == self.config['echo']['uid']: the callback logs and returns
IsOwnReplay(m) == from_bytes(m).uid = RelayUid
\* (variant: the uid test is missing)
ShouldBufferNoUidTest(m) == ~LogsError(m)
ShouldBuffer(m) == ~LogsError(m) /\ ~IsOwnReplay(m)

\* (variant: there is no except clause, the ValueError ends the thread)
OnMessageUncaught(p, m) ==
    /\ pc[p] = "idle"
    /\ deliveries < MaxDeliveries
    /\ deliveries' = deliveries + 1
    /\ IF ShouldBuffer(m)
       THEN /\ pc' = [pc EXCEPT ![p] = "acquire"]
            /\ msg' = [msg EXCEPT ![p] = Some(m)]
            /\ UNCHANGED <<ignored, echoed, errors>>
       ELSE /\ ignored' = IF ~LogsError(m) THEN ignored + 1 ELSE ignored
            /\ errors' = IF LogsError(m) THEN errors + 1 ELSE errors
            /\ pc' = IF LogsError(m) THEN [pc EXCEPT ![p] = "raised"] ELSE pc
            /\ UNCHANGED <<msg, echoed>>
    /\ UNCHANGED <<daemon_vars, config_vars, codec_vars, stop_vars,
                   buffer_vars, buffer_lock, now, replay_vars, accepted,
                   last_accept, refresh_run>>
\* the client invokes the callback with a received message: the header is
\* parsed and the uid tested (neither touches shared state), and the
\* callback either ends there or goes on to the with statement
OnMessage(p, m) ==
    /\ pc[p] = "idle"
    /\ deliveries < MaxDeliveries
    /\ deliveries' = deliveries + 1
    /\ IF ShouldBuffer(m)
       THEN /\ pc' = [pc EXCEPT ![p] = "acquire"]
            /\ msg' = [msg EXCEPT ![p] = Some(m)]
            /\ UNCHANGED <<ignored, echoed, errors>>
       ELSE /\ ignored' = IF ~LogsError(m) THEN ignored + 1 ELSE ignored
            /\ errors' = IF LogsError(m) THEN errors + 1 ELSE errors
            /\ UNCHANGED <<pc, msg, echoed>>
    /\ UNCHANGED <<daemon_vars, config_vars, codec_vars, stop_vars,
                   buffer_vars, buffer_lock, now, replay_vars, accepted,
                   last_accept, refresh_run>>

\* the publish topic is the subscribed topic: the broker delivers the
\* relay's own publish number i back to the callback
OnEcho(p, i) ==
    /\ pc[p] = "idle"
    /\ deliveries < MaxDeliveries
    /\ deliveries' = deliveries + 1
    /\ LET m == published[i].payload
       IN  IF ShouldBuffer(m)
           THEN /\ pc' = [pc EXCEPT ![p] = "acquire"]
                /\ msg' = [msg EXCEPT ![p] = Some(m)]
                /\ UNCHANGED <<ignored, echoed, errors>>
           ELSE /\ ignored' = IF ~LogsError(m) THEN ignored + 1 ELSE ignored
                /\ echoed' = IF ~LogsError(m) THEN echoed + 1 ELSE echoed
                /\ errors' = IF LogsError(m) THEN errors + 1 ELSE errors
                /\ UNCHANGED <<pc, msg>>
    /\ UNCHANGED <<daemon_vars, config_vars, codec_vars, stop_vars,
                   buffer_vars, buffer_lock, now, replay_vars, accepted,
                   last_accept, refresh_run>>

\* (variant: the append and the timestamp are not under the lock)
AcquireWithoutLock(p) ==
    /\ pc[p] = "acquire"
    /\ pc' = [pc EXCEPT ![p] = "append"]
    /\ UNCHANGED <<daemon_vars, config_vars, codec_vars, stop_vars,
                   buffer_vars, buffer_lock, now, msg, deliveries, replay_vars,
                   history_vars>>
\* with self.buffer_lock:
Acquire(p) ==
    /\ pc[p] = "acquire"
    /\ buffer_lock = Free
    /\ buffer_lock' = p
    /\ pc' = [pc EXCEPT ![p] = "append"]
    /\ UNCHANGED <<daemon_vars, config_vars, codec_vars, stop_vars,
                   buffer_vars, now, msg, deliveries, replay_vars, history_vars>>

\* (variant: the with statement ends after the append)
AppendMessageThenUnlock(p) ==
    /\ pc[p] = "append"
    /\ message_buffer' = Append(message_buffer, Val(msg[p]))
    /\ accepted' = Append(accepted, Val(msg[p]))
    /\ buffer_lock' = Free
    /\ pc' = [pc EXCEPT ![p] = "set_time"]
    /\ UNCHANGED <<daemon_vars, config_vars, codec_vars, stop_vars,
                   last_message_time, now, msg, deliveries,
                   replay_vars, last_accept, ignored, echoed, errors, refresh_run>>
\* (variant: the list is replaced by one holding this message only)
AppendMessageOverwrites(p) ==
    /\ pc[p] = "append"
    /\ message_buffer' = <<Val(msg[p])>>
    /\ accepted' = Append(accepted, Val(msg[p]))
    /\ pc' = [pc EXCEPT ![p] = "set_time"]
    /\ UNCHANGED <<daemon_vars, config_vars, codec_vars, stop_vars,
                   last_message_time, buffer_lock, now, msg, deliveries,
                   replay_vars, last_accept, ignored, echoed, errors, refresh_run>>
\* self.message_buffer.append(msg.payload)
AppendMessage(p) ==
    /\ pc[p] = "append"
    /\ message_buffer' = Append(message_buffer, Val(msg[p]))
    /\ accepted' = Append(accepted, Val(msg[p]))
    /\ pc' = [pc EXCEPT ![p] = "set_time"]
    /\ UNCHANGED <<daemon_vars, config_vars, codec_vars, stop_vars,
                   last_message_time, buffer_lock, now, msg, deliveries,
                   replay_vars, last_accept, ignored, echoed, errors, refresh_run>>

\* (variant: the timestamp is set by the first packet of a batch only)
SetTimeOnlyFirst(p) ==
    /\ pc[p] = "set_time"
    /\ last_message_time' =
           IF last_message_time = None THEN Some(now) ELSE last_message_time
    /\ last_accept' = Some(now)
    /\ refresh_run' = IF refresh_run = now THEN refresh_run + 1 ELSE Off
    /\ pc' = [pc EXCEPT ![p] = "release"]
    /\ UNCHANGED <<daemon_vars, config_vars, codec_vars, stop_vars,
                   message_buffer, buffer_lock, now, msg, deliveries,
                   replay_vars, accepted, ignored, echoed, errors>>
\* self.last_message_time = time.time()
SetTime(p) ==
    /\ pc[p] = "set_time"
    /\ last_message_time' = Some(now)
    /\ last_accept' = Some(now)
    /\ refresh_run' = IF refresh_run = now THEN refresh_run + 1 ELSE Off
    /\ pc' = [pc EXCEPT ![p] = "release"]
    /\ UNCHANGED <<daemon_vars, config_vars, codec_vars, stop_vars,
                   message_buffer, buffer_lock, now, msg, deliveries,
                   replay_vars, accepted, ignored, echoed, errors>>

\* the with statement ends; the callback logs and returns
Release(p) ==
    /\ pc[p] = "release"
    /\ buffer_lock' = Free
    /\ pc' = [pc EXCEPT ![p] = "idle"]
    /\ msg' = [msg EXCEPT ![p] = None]
    /\ UNCHANGED <<daemon_vars, config_vars, codec_vars, stop_vars,
                   buffer_vars, now, deliveries, replay_vars, history_vars>>

(***************************************************************************)
(* _check_timeout, run by the main thread's poll loop                      *)
(***************************************************************************)
\* run(): self.running = True, and the loop is entered
Run ==
    /\ pc[Main] \in {"created", "connected"}
    /\ stop_pc = "none"
    /\ running' = TRUE
    /\ pc' = [pc EXCEPT ![Main] = "idle"]
    /\ UNCHANGED <<daemon_vars, config_vars, codec_vars, client, stop_pc, signals,
                   buffer_vars, buffer_lock, now, msg, deliveries, replay_vars,
                   history_vars>>

\* (variant: _check_timeout does not take the lock)
CheckAcquireWithoutLock ==
    /\ pc[Main] = "idle"
    /\ pc' = [pc EXCEPT ![Main] = "check"]
    /\ UNCHANGED <<daemon_vars, config_vars, codec_vars, stop_vars,
                   buffer_vars, buffer_lock, now, msg, deliveries, replay_vars,
                   history_vars>>
\* with self.buffer_lock:
CheckAcquire ==
    /\ pc[Main] = "idle"
    /\ buffer_lock = Free
    /\ buffer_lock' = Main
    /\ pc' = [pc EXCEPT ![Main] = "check"]
    /\ UNCHANGED <<daemon_vars, config_vars, codec_vars, stop_vars,
                   buffer_vars, now, msg, deliveries, replay_vars, history_vars>>

\* while self.running: self._check_timeout()
RunLoop == running /\ stop_pc = "none" /\ CheckAcquire

\* elapsed = time.time() - self.last_message_time;
\* elapsed > self.config['echo']['timeout']
Elapsed == now - Val(last_message_time)
\* (variant: the timeout fires one time unit late)
TimedOutLate(e) == e > Timeout + 1
\* (variant: the threshold is inclusive)
TimedOutInclusive(e) == e >= Timeout
TimedOut(e) == e > Timeout

\* (variant: a missing timestamp counts as time 0)
CheckNoneAsZero ==
    /\ pc[Main] = "check"
    /\ LET last == IF last_message_time = None THEN 0 ELSE Val(last_message_time)
       IN  IF TimedOut(now - last)
           THEN /\ buffer_lock' = buffer_lock
                /\ IF message_buffer # <<>>
                   THEN /\ pc' = [pc EXCEPT ![Main] = "replay"]
                        /\ idx' = 1
                        /\ batches' = Append(batches, <<>>)
                   ELSE /\ pc' = [pc EXCEPT ![Main] = "clear_buffer"]
                        /\ UNCHANGED <<idx, batches>>
           ELSE /\ pc' = [pc EXCEPT ![Main] = "idle"]
                /\ buffer_lock' = Free
                /\ UNCHANGED <<idx, batches>>
    /\ UNCHANGED <<daemon_vars, config_vars, codec_vars, stop_vars,
                   buffer_vars, now, msg, deliveries, success_count, fail_count,
                   published, report, results, history_vars>>

\* (variant: a timeout with an empty buffer returns without the reset)
CheckSkipsEmpty ==
    /\ pc[Main] = "check"
    /\ IF last_message_time # None /\ TimedOut(Elapsed) /\ message_buffer # <<>>
       THEN /\ buffer_lock' = buffer_lock
            /\ pc' = [pc EXCEPT ![Main] = "replay"]
            /\ idx' = 1
            /\ batches' = Append(batches, <<>>)
       ELSE /\ pc' = [pc EXCEPT ![Main] = "idle"]
            /\ buffer_lock' = Free
            /\ UNCHANGED <<idx, batches>>
    /\ UNCHANGED <<daemon_vars, config_vars, codec_vars, stop_vars,
                   buffer_vars, now, msg, deliveries, success_count, fail_count,
                   published, report, results, history_vars>>

\* if self.last_message_time is None: return (the with statement releases
\* the lock); otherwise elapsed is computed and compared: not timed out,
\* the method returns; timed out, it replays a non-empty buffer and then
\* resets the state
Check ==
    /\ pc[Main] = "check"
    /\ IF last_message_time = None
       THEN /\ pc' = [pc EXCEPT ![Main] = "idle"]
            /\ buffer_lock' = Free
            /\ UNCHANGED <<idx, batches>>
       ELSE IF TimedOut(Elapsed)
       THEN /\ buffer_lock' = buffer_lock
            /\ IF message_buffer # <<>>
               THEN /\ pc' = [pc EXCEPT ![Main] = "replay"]
                    /\ idx' = 1
                    /\ batches' = Append(batches, <<>>)
               ELSE /\ pc' = [pc EXCEPT ![Main] = "clear_buffer"]
                    /\ UNCHANGED <<idx, batches>>
       ELSE /\ pc' = [pc EXCEPT ![Main] = "idle"]
            /\ buffer_lock' = Free
            /\ UNCHANGED <<idx, batches>>
    /\ UNCHANGED <<daemon_vars, config_vars, codec_vars, stop_vars,
                   buffer_vars, now, msg, deliveries, success_count, fail_count,
                   published, report, results, history_vars>>

(***************************************************************************)
(* _replay_messages: one iteration of the for loop over the list           *)
(* self.message_buffer (the list itself, not a copy), then the summary.    *)
(***************************************************************************)
\* (variant: the replay rewrites the callsign only)
ReplayUpdatesKeepUid(msg_data) ==
    [callsign |-> CallsignPrefix \o from_bytes(msg_data).callsign]
\* the keyword arguments of the call to replace_header_in_stream
ReplayUpdates(msg_data) ==
    [uid |-> RelayUid, callsign |-> CallsignPrefix \o from_bytes(msg_data).callsign]

\* an exception before the publish call: it is caught and counted
ReplayRaises(msg_data) ==
    FromBytesRaises(msg_data) \/ ReplaceRaises(msg_data, ReplayUpdates(msg_data))

ModifiedMsg(msg_data) == replace_header_in_stream(msg_data, ReplayUpdates(msg_data))

AddToBatch(bs, msg_data) == [bs EXCEPT ![Len(bs)] = Append(@, msg_data)]

\* (variant: the list is walked from its end)
NextMessageReversed == message_buffer[Len(message_buffer) - idx + 1]
\* the element enumerate(self.message_buffer, 1) yields at this iteration
NextMessage == message_buffer[idx]

\* (variant: a failure ends the loop)
AfterFailureBreak(i) == Len(message_buffer) + 1
\* a packet that failed is counted and the loop goes on with the next one
AfterFailure(i) == i + 1

ReplayMessage ==
    /\ pc[Main] = "replay"
    /\ idx <= Len(message_buffer)
    /\ LET msg_data == NextMessage
       IN  /\ batches' = AddToBatch(batches, msg_data)
           /\ IF ReplayRaises(msg_data)
              THEN /\ fail_count' = fail_count + 1
                   /\ results' = Append(results, "raise")
                   /\ idx' = AfterFailure(idx)
                   /\ UNCHANGED <<success_count, published>>
              ELSE \E result \in PublishOutcomes :
                   /\ published' = Append(published,
                          [topic |-> PublishTopic, payload |-> ModifiedMsg(msg_data)])
                   /\ results' = Append(results, result)
                   /\ IF result = MQTT_ERR_SUCCESS
                      THEN /\ success_count' = success_count + 1
                           /\ fail_count' = fail_count
                           /\ idx' = idx + 1
                      ELSE /\ fail_count' = fail_count + 1
                           /\ success_count' = success_count
                           /\ idx' = AfterFailure(idx)
    /\ UNCHANGED <<daemon_vars, config_vars, codec_vars, stop_vars,
                   buffer_vars, buffer_lock, now, pc, msg, deliveries,
                   report, history_vars>>

\* the loop is exhausted: log the counts and return to _check_timeout
ReplayDone ==
    /\ pc[Main] = "replay"
    /\ idx > Len(message_buffer)
    /\ report' = Some([succeeded |-> success_count, failed |-> fail_count,
                       total |-> Len(message_buffer)])
    /\ idx' = 0
    /\ success_count' = 0
    /\ fail_count' = 0
    /\ pc' = [pc EXCEPT ![Main] = "clear_buffer"]
    /\ UNCHANGED <<daemon_vars, config_vars, codec_vars, stop_vars,
                   buffer_vars, buffer_lock, now, msg, deliveries,
                   published, batches, results, history_vars>>

\* (variant: a batch with failures is kept for another try)
ClearBufferKeepFailed ==
    /\ pc[Main] = "clear_buffer"
    /\ message_buffer' =
           IF report # None /\ Val(report).failed > 0 THEN message_buffer ELSE <<>>
    /\ pc' = [pc EXCEPT ![Main] = "clear_time"]
    /\ UNCHANGED <<daemon_vars, config_vars, codec_vars, stop_vars,
                   last_message_time, buffer_lock, now, msg, deliveries,
                   replay_vars, history_vars>>
\* (variant: a last packet whose publish failed is queued again)
ClearBufferRequeueFailed ==
    /\ pc[Main] = "clear_buffer"
    /\ message_buffer' =
           IF results # <<>> /\ results[Len(results)] # MQTT_ERR_SUCCESS
           THEN <<message_buffer[Len(message_buffer)]>>
           ELSE <<>>
    /\ pc' = [pc EXCEPT ![Main] = "clear_time"]
    /\ UNCHANGED <<daemon_vars, config_vars, codec_vars, stop_vars,
                   last_message_time, buffer_lock, now, msg, deliveries,
                   replay_vars, history_vars>>
\* self.message_buffer = []
ClearBuffer ==
    /\ pc[Main] = "clear_buffer"
    /\ message_buffer' = <<>>
    /\ pc' = [pc EXCEPT ![Main] = "clear_time"]
    /\ UNCHANGED <<daemon_vars, config_vars, codec_vars, stop_vars,
                   last_message_time, buffer_lock, now, msg, deliveries,
                   replay_vars, history_vars>>

\* self.last_message_time = None
ClearTime ==
    /\ pc[Main] = "clear_time"
    /\ last_message_time' = None
    /\ pc' = [pc EXCEPT ![Main] = "check_release"]
    /\ UNCHANGED <<daemon_vars, config_vars, codec_vars, stop_vars,
                   message_buffer, buffer_lock, now, msg, deliveries,
                   replay_vars, history_vars>>

\* the with statement ends and _check_timeout returns
CheckRelease ==
    /\ pc[Main] = "check_release"
    /\ buffer_lock' = Free
    /\ report' = None
    /\ results' = <<>>
    /\ pc' = [pc EXCEPT ![Main] = "idle"]
    /\ UNCHANGED <<daemon_vars, config_vars, codec_vars, stop_vars,
                   buffer_vars, now, msg, deliveries, idx, success_count,
                   fail_count, published, batches, history_vars>>

Next ==
    \/ Tick
    \/ \E p \in Producers, m \in Packets : OnMessage(p, m)
    \/ \E p \in Producers, i \in DOMAIN published : OnEcho(p, i)
    \/ \E p \in Producers : Acquire(p)
    \/ \E p \in Producers : AppendMessage(p)
    \/ \E p \in Producers : SetTime(p)
    \/ \E p \in Producers : Release(p)
    \/ Run
    \/ RunLoop
    \/ Check
    \/ ReplayMessage
    \/ ReplayDone
    \/ ClearBuffer
    \/ ClearTime
    \/ CheckRelease

Spec == Init /\ [][Next]_vars

(***************************************************************************)
(* _check_timeout called on a service whose buffer and timestamp were set  *)
(* directly, as the message flow tests do (no _on_message call made them): *)
(* a buffer of zero, one or two messages with a timestamp that is absent,  *)
(* current or in the past.  Only the main thread runs.                     *)
(***************************************************************************)
PollBuffers == {<<>>, <<TestMsg>>, <<TestMsg, TestMsg>>}

InitPoll ==
    /\ CodecIdle
    /\ ConfigIdle
    /\ DaemonIdle
    /\ Unstarted
    /\ message_buffer \in PollBuffers
    /\ now \in 0..MaxTime
    /\ last_message_time \in {None} \cup {Some(t) : t \in 0..now}
    /\ buffer_lock = Free
    /\ pc = [t \in Threads |-> "idle"]
    /\ msg = [p \in Producers |-> None]
    /\ deliveries = 0
    /\ idx = 0
    /\ success_count = 0
    /\ fail_count = 0
    /\ published = <<>>
    /\ report = None
    /\ accepted = message_buffer
    /\ last_accept = last_message_time
    /\ refresh_run = Off
    /\ ignored = 0
    /\ echoed = 0
    /\ errors = 0
    /\ batches = <<>>
    /\ results = <<>>

NextPoll ==
    \/ Tick
    \/ CheckAcquire
    \/ Check
    \/ ReplayMessage
    \/ ReplayDone
    \/ ClearBuffer
    \/ ClearTime
    \/ CheckRelease

SpecPoll == InitPoll /\ [][NextPoll]_vars

(***************************************************************************)
(* The service as main() wires it: connect() starts the client's one       *)
(* network thread, which runs the _on_message callbacks, and run() polls   *)
(* on the main thread.                                                     *)
(***************************************************************************)
NetThread == "net1"
LivePackets == {TestMsg, EchoMsg}

\* connect(): the client is created and loop_start() starts its thread
Connect ==
    /\ pc[Main] = "created"
    /\ stop_pc = "none"
    /\ client' = "started"
    /\ pc' = [pc EXCEPT ![Main] = "connected"]
    /\ UNCHANGED <<daemon_vars, config_vars, codec_vars, running, stop_pc, signals,
                   buffer_vars, buffer_lock, now, msg, deliveries, replay_vars,
                   history_vars>>

\* the network thread calls the callback for a message from the broker
Receive(m) == client = "started" /\ OnMessage(NetThread, m)
ReceiveEcho(i) == client = "started" /\ OnEcho(NetThread, i)

\* the steps of the main thread inside run(), which a signal handler
\* running on that thread suspends
CheckTimeoutStep ==
    /\ stop_pc = "none"
    /\ Check \/ ReplayMessage \/ ReplayDone \/ ClearBuffer \/ ClearTime \/ CheckRelease

CallbackStep ==
    Acquire(NetThread) \/ AppendMessage(NetThread) \/ SetTime(NetThread)
        \/ Release(NetThread)

NextLive ==
    \/ Tick
    \/ \E m \in LivePackets : Receive(m)
    \/ \E i \in DOMAIN published : ReceiveEcho(i)
    \/ CallbackStep
    \/ Connect
    \/ Run
    \/ RunLoop
    \/ CheckTimeoutStep

\* the steps of the main thread other than an iteration of the replay loop
PollStep ==
    \/ Connect
    \/ Run
    \/ RunLoop
    \/ /\ stop_pc = "none"
       /\ Check \/ ReplayDone \/ ClearBuffer \/ ClearTime \/ CheckRelease

\* the loop of _replay_messages has a packet left: ENABLED ReplayMessage
ReplayEnabled ==
    /\ pc[Main] = "replay"
    /\ idx <= Len(message_buffer)
    /\ stop_pc = "none"

\* the clock advances, the main thread keeps running (time.sleep returns,
\* a publish call returns) and a callback that has started runs on; the
\* last conjunct is WF_vars(ReplayMessage) with its ENABLED written out
Fairness ==
    /\ WF_vars(Tick)
    /\ WF_vars(CallbackStep)
    /\ WF_vars(PollStep)
    /\ []<>(~ReplayEnabled) \/ []<><<ReplayMessage>>_vars

SpecLive == Init /\ [][NextLive]_vars /\ Fairness

(***************************************************************************)
(* Shutdown: SIGINT / SIGTERM run _signal_handler, and so stop(), on the   *)
(* main thread, on top of whatever that thread was doing; run() calls      *)
(* stop() again in its finally clause when the loop ends.                  *)
(***************************************************************************)
\* a signal arrives: the handlers are registered by __init__.  Python runs
\* the handler between two bytecodes of the main thread: in run()'s loop,
\* outside _check_timeout, that is before the test of self.running (pc
\* stays "idle") or after it, with the call of _check_timeout still to come
\* or waiting for the lock ("poll")
Signal ==
    /\ stop_pc = "none"
    /\ signals < MaxSignals
    /\ signals' = signals + 1
    /\ stop_pc' = "test"
    /\ \/ pc' = pc
       \/ /\ pc[Main] = "idle"
          /\ running
          /\ pc' = [pc EXCEPT ![Main] = "poll"]
    /\ UNCHANGED <<daemon_vars, config_vars, codec_vars, running, client,
                   buffer_vars, buffer_lock, now, msg, deliveries,
                   replay_vars, history_vars>>

\* the iteration that the signal interrupted after its test of self.running
\* goes on once the handler has returned: _check_timeout, with
\* self.buffer_lock
PollAfterSignal ==
    /\ pc[Main] = "poll"
    /\ stop_pc = "none"
    /\ buffer_lock = Free
    /\ buffer_lock' = Main
    /\ pc' = [pc EXCEPT ![Main] = "check"]
    /\ UNCHANGED <<daemon_vars, config_vars, codec_vars, stop_vars,
                   buffer_vars, now, msg, deliveries, replay_vars, history_vars>>

\* while self.running is false: the loop ends, finally: self.stop()
LoopExit ==
    /\ pc[Main] = "idle"
    /\ stop_pc = "none"
    /\ ~running
    /\ pc' = [pc EXCEPT ![Main] = "finally"]
    /\ stop_pc' = "test"
    /\ UNCHANGED <<daemon_vars, config_vars, codec_vars, running, client, signals,
                   buffer_vars, buffer_lock, now, msg, deliveries,
                   replay_vars, history_vars>>

\* stop() returns to its caller: the interrupted code, or run()'s end
Returned == [pc EXCEPT ![Main] = IF @ = "finally" THEN "exited" ELSE @]

\* if not self.running: return; self.running = False
StopTest ==
    /\ stop_pc = "test"
    /\ IF running
       THEN /\ running' = FALSE
            /\ stop_pc' = "client"
            /\ pc' = pc
       ELSE /\ stop_pc' = "none"
            /\ pc' = Returned
            /\ running' = running
    /\ UNCHANGED <<daemon_vars, config_vars, codec_vars, client, signals,
                   buffer_vars, buffer_lock, now, msg, deliveries,
                   replay_vars, history_vars>>

\* if self.mqtt_client: loop_stop() (which joins the network thread, so
\* waits for a callback in progress to return) and disconnect()
StopClient ==
    /\ stop_pc = "client"
    /\ client = "none" \/ pc[NetThread] = "idle"
    /\ client' = IF client = "none" THEN client ELSE "stopped"
    /\ stop_pc' = "lock"
    /\ UNCHANGED <<daemon_vars, config_vars, codec_vars, running, signals,
                   buffer_vars, buffer_lock, now, pc, msg, deliveries,
                   replay_vars, history_vars>>

\* with self.buffer_lock: on a lock that is not reentrant
StopLock ==
    /\ stop_pc = "lock"
    /\ buffer_lock = Free
    /\ buffer_lock' = "stop"
    /\ stop_pc' = "log"
    /\ UNCHANGED <<daemon_vars, config_vars, codec_vars, running, client, signals,
                   buffer_vars, now, pc, msg, deliveries,
                   replay_vars, history_vars>>

\* (variant: stop() empties the queue before it returns)
StopReleaseDiscards ==
    /\ stop_pc = "log"
    /\ message_buffer' = <<>>
    /\ last_message_time' = None
    /\ buffer_lock' = Free
    /\ stop_pc' = "none"
    /\ pc' = Returned
    /\ UNCHANGED <<daemon_vars, config_vars, codec_vars, running, client, signals,
                   now, msg, deliveries, replay_vars, history_vars>>
\* the buffer size is logged, the with statement ends, stop() returns
StopRelease ==
    /\ stop_pc = "log"
    /\ buffer_lock' = Free
    /\ stop_pc' = "none"
    /\ pc' = Returned
    /\ UNCHANGED <<daemon_vars, config_vars, codec_vars, running, client, signals,
                   buffer_vars, now, msg, deliveries,
                   replay_vars, history_vars>>

StopStep == StopTest \/ StopClient \/ StopLock \/ StopRelease

NextStop ==
    \/ NextLive
    \/ Signal
    \/ PollAfterSignal
    \/ LoopExit
    \/ StopTest
    \/ StopClient
    \/ StopLock
    \/ StopRelease

\* stop(), once called, runs on, and so does run() after its loop
FairnessStop ==
    /\ Fairness
    /\ WF_vars(StopStep)
    /\ WF_vars(PollAfterSignal)
    /\ WF_vars(LoopExit)

SpecStop == Init /\ [][NextStop]_vars /\ FairnessStop

(***************************************************************************)
(* Direct calls of the codec: one call per behaviour, on arguments drawn   *)
(* from CodecCalls; the bytes a call returns are then decoded again.       *)
(***************************************************************************)
InitCodec ==
    /\ Constructed
    /\ ConfigIdle
    /\ DaemonIdle
    /\ codec_call \in CodecCalls
    /\ codec_pc = "start"
    /\ codec_ret = <<>>
    /\ codec_exc = NoError
    /\ codec_back = None

\* header.to_bytes()
CallToBytes ==
    /\ codec_pc = "start"
    /\ codec_call.op = "to_bytes"
    /\ IF ToBytesRaises(codec_call.header)
       THEN /\ codec_pc' = "raised"
            /\ codec_exc' = "struct.error"
            /\ UNCHANGED codec_ret
       ELSE /\ codec_pc' = "returned"
            /\ codec_ret' = to_bytes(codec_call.header)
            /\ UNCHANGED codec_exc
    /\ UNCHANGED <<daemon_vars, config_vars, service_vars, codec_call, codec_back>>

\* FMORawHeader.from_bytes(data)
CallFromBytes ==
    /\ codec_pc = "start"
    /\ codec_call.op = "from_bytes"
    /\ IF FromBytesRaises(codec_call.stream)
       THEN /\ codec_pc' = "raised"
            /\ codec_exc' = "ValueError"
            /\ UNCHANGED codec_ret
       ELSE /\ codec_pc' = "returned"
            /\ codec_ret' = from_bytes(codec_call.stream)
            /\ UNCHANGED codec_exc
    /\ UNCHANGED <<daemon_vars, config_vars, service_vars, codec_call, codec_back>>

\* replace_header_in_stream(stream, **updates)
CallReplace ==
    /\ codec_pc = "start"
    /\ codec_call.op = "replace_header_in_stream"
    /\ LET stream  == codec_call.stream
           updates == UpdatesOf(codec_call)
       IN  IF ReplaceRaises(stream, updates)
           THEN /\ codec_pc' = "raised"
                /\ codec_exc' = ReplaceError(stream, updates)
                /\ UNCHANGED codec_ret
           ELSE /\ codec_pc' = "returned"
                /\ codec_ret' = replace_header_in_stream(stream, updates)
                /\ UNCHANGED codec_exc
    /\ UNCHANGED <<daemon_vars, config_vars, service_vars, codec_call, codec_back>>

\* FMORawHeader.from_bytes(...) of the bytes the call returned
DecodeBack ==
    /\ codec_pc = "returned"
    /\ codec_call.op \in {"to_bytes", "replace_header_in_stream"}
    /\ codec_back' = Some(from_bytes(codec_ret))
    /\ codec_pc' = "decoded"
    /\ UNCHANGED <<daemon_vars, config_vars, service_vars, codec_call, codec_ret, codec_exc>>

NextCodec ==
    \/ CallToBytes
    \/ CallFromBytes
    \/ CallReplace
    \/ DecodeBack

SpecCodec == InitCodec /\ [][NextCodec]_vars

(***************************************************************************)
(* Direct calls of validate_config: one call per behaviour, on a           *)
(* configuration drawn from Configs.                                       *)
(***************************************************************************)
InitConfig ==
    /\ Constructed
    /\ CodecIdle
    /\ DaemonIdle
    /\ config \in Configs
    /\ validated = "no"
    /\ merge_call = [base |-> EmptyDict, override |-> EmptyDict]
    /\ merge_heap = <<>>
    /\ merge_ret = 0

\* validate_config(config)
CallValidate ==
    /\ validated = "no"
    /\ validated' = validate_config(config)
    /\ UNCHANGED <<daemon_vars, service_vars, codec_vars, config, merge_vars>>

NextConfig == CallValidate

SpecConfig == InitConfig /\ [][NextConfig]_vars

(***************************************************************************)
(* Direct calls of deep_merge: one call per behaviour, on two dictionaries *)
(* drawn from MergeTrees.                                                  *)
(***************************************************************************)
InitMerge ==
    /\ Constructed
    /\ CodecIdle
    /\ DaemonIdle
    /\ config = DEFAULT_CONFIG
    /\ validated = "no"
    /\ merge_call \in [base : MergeTrees, override : MergeTrees]
    /\ merge_heap = MergeHeap(merge_call)
    /\ merge_ret = 0

\* deep_merge(base, override)
CallDeepMerge ==
    /\ merge_ret = 0
    /\ LET r == deep_merge(merge_heap, BaseId, OverrideId(merge_call))
       IN  /\ merge_heap' = r.heap
           /\ merge_ret' = r.result
    /\ UNCHANGED <<daemon_vars, service_vars, codec_vars, config, validated, merge_call>>

NextMerge == CallDeepMerge

SpecMerge == InitMerge /\ [][NextMerge]_vars

(***************************************************************************)
(* Daemon.start, called by two processes on the same PID file.  Each       *)
(* process runs its own copy of the program; what they share is the file.  *)
(***************************************************************************)
InitDaemon ==
    /\ Constructed
    /\ CodecIdle
    /\ ConfigIdle
    /\ pid_file \in PidFiles
    /\ daemon_pc = [s \in Starters |-> [at |-> "start", fd |-> 0]]

\* if self.get_pid_from_file(): write the message, sys.exit(1); None and 0
\* are false
StartCheck(s) ==
    /\ daemon_pc[s].at = "start"
    /\ LET pid == get_pid_from_file(pid_file)
       IN  daemon_pc' = [daemon_pc EXCEPT ![s].at =
               IF pid # None /\ Val(pid) # 0 THEN "refused" ELSE "daemonize"]
    /\ UNCHANGED <<service_vars, codec_vars, config_vars, pid_file>>

\* daemonize(): the first fork; the parent exits, the child goes on
FirstFork(s) ==
    /\ daemon_pc[s].at = "daemonize"
    /\ daemon_pc' = [daemon_pc EXCEPT ![s].at = "setsid"]
    /\ UNCHANGED <<service_vars, codec_vars, config_vars, pid_file>>

\* os.chdir, os.setsid, os.umask
NewSession(s) ==
    /\ daemon_pc[s].at = "setsid"
    /\ daemon_pc' = [daemon_pc EXCEPT ![s].at = "fork"]
    /\ UNCHANGED <<service_vars, codec_vars, config_vars, pid_file>>

\* the second fork, the first child exits; in the grandchild the standard
\* streams go to /dev/null and atexit.register(self.delete_pid_file)
SecondFork(s) ==
    /\ daemon_pc[s].at = "fork"
    /\ daemon_pc' = [daemon_pc EXCEPT ![s].at = "open"]
    /\ UNCHANGED <<service_vars, codec_vars, config_vars, pid_file>>

\* write_pid_file: open(self.pid_file, 'w+') creates the file or cuts it to
\* length 0
OpenPidFile(s) ==
    /\ daemon_pc[s].at = "open"
    /\ pid_file' = [exists |-> TRUE, text |-> <<>>,
                    gen |-> IF pid_file.exists THEN pid_file.gen
                            ELSE pid_file.gen + 1]
    /\ daemon_pc' = [daemon_pc EXCEPT ![s] = [at |-> "write", fd |-> pid_file'.gen]]
    /\ UNCHANGED <<service_vars, codec_vars, config_vars>>

\* f.write(f"{pid}\n") at offset 0 of the file that was opened, which is
\* then closed; start() calls target_func
WritePidFile(s) ==
    /\ daemon_pc[s].at = "write"
    /\ LET text == PidText(DaemonPid[s])
       IN  pid_file' =
               IF pid_file.exists /\ pid_file.gen = daemon_pc[s].fd
               THEN [pid_file EXCEPT
                        !.text = text \o SubSeq(@, Len(text) + 1, Len(@))]
               ELSE pid_file
    /\ daemon_pc' = [daemon_pc EXCEPT ![s] = [at |-> "running", fd |-> 0]]
    /\ UNCHANGED <<service_vars, codec_vars, config_vars>>

\* target_func returns and the process ends: atexit runs delete_pid_file,
\* which removes the file if os.path.exists(self.pid_file)
TargetReturns(s) ==
    /\ daemon_pc[s].at = "running"
    /\ pid_file' = [pid_file EXCEPT !.exists = FALSE, !.text = <<>>]
    /\ daemon_pc' = [daemon_pc EXCEPT ![s].at = "exited"]
    /\ UNCHANGED <<service_vars, codec_vars, config_vars>>

NextDaemon ==
    \E s \in Starters :
        \/ StartCheck(s)
        \/ FirstFork(s)
        \/ NewSession(s)
        \/ SecondFork(s)
        \/ OpenPidFile(s)
        \/ WritePidFile(s)
        \/ TargetReturns(s)

SpecDaemon == InitDaemon /\ [][NextDaemon]_vars

(***************************************************************************)
(* Helpers of the properties.                                              *)
(***************************************************************************)
RECURSIVE Flatten(_)
Flatten(ss) == IF ss = <<>> THEN <<>> ELSE Head(ss) \o Flatten(Tail(ss))

Count(seq, x) == Cardinality({i \in DOMAIN seq : seq[i] = x})

\* the states of the main thread inside a _check_timeout call that timed out
FiredStates == {"replay", "clear_buffer", "clear_time", "check_release"}

\* a step of the main thread
MainStep == pc'[Main] # pc[Main] \/ idx' # idx

\* the longest prefix of the text s whose UTF-8 encoding takes at most n bytes
RECURSIVE CutText(_, _)
CutText(s, n) ==
    IF s = <<>> \/ Len(EncodeCodePoint(s[1])) > n THEN <<>>
    ELSE <<s[1]>> \o CutText(Tail(s), n - Len(EncodeCodePoint(s[1])))

(***************************************************************************)
(* C1. Loop prevention: a delivery of a packet of at least 22 bytes whose   *)
(* header uid is the relay's uid is dropped, in Idle and in Accumulating:   *)
(* that step changes neither the queue nor the timestamp and starts no     *)
(* append, and no packet carrying the relay's uid is ever in the queue or  *)
(* on its way into it.                                                     *)
(***************************************************************************)
C1_NoOwnPacketBuffered ==
    /\ \A i \in DOMAIN message_buffer : from_bytes(message_buffer[i]).uid # RelayUid
    /\ \A i \in DOMAIN accepted : from_bytes(accepted[i]).uid # RelayUid
    /\ \A p \in Producers :
          pc[p] # "idle" => from_bytes(Val(msg[p])).uid # RelayUid

C1_DropLeavesState ==
    ignored' # ignored => UNCHANGED <<message_buffer, last_message_time, pc, msg>>

C1_LoopPrevention == []C1_NoOwnPacketBuffered /\ [][C1_DropLeavesState]_vars

\* the relay's own packet was delivered and dropped while Accumulating
C1_Witness ==
    /\ ignored > 0
    /\ message_buffer # <<>>
    /\ last_message_time # None

(***************************************************************************)
(* C2. Whenever the buffer lock is not held, the queue is empty exactly    *)
(* when the timestamp is absent.                                           *)
(***************************************************************************)
C2_QueueTimestampAtomic ==
    buffer_lock = Free => (message_buffer = <<>> <=> last_message_time = None)

\* Accumulating again after a replay has cleared the state, lock not held
C2_Witness ==
    /\ buffer_lock = Free
    /\ message_buffer # <<>>
    /\ last_message_time # None
    /\ batches # <<>>

(***************************************************************************)
(* C3. While a replay publishes, the buffer lock is not held (the snapshot *)
(* is taken under the lock and the lock released before the first          *)
(* publish), so no producer waits for the lock during a batch.             *)
(***************************************************************************)
C3_PublishOutsideLock ==
    pc[Main] = "replay" => buffer_lock # Main

(***************************************************************************)
(* C4. No accepted packet is lost: every accepted packet is in the queue   *)
(* or in the batch of a replay, and what the clear step of _check_timeout  *)
(* discards is exactly the batch that the call has just replayed.          *)
(***************************************************************************)
C4_NoAcceptedPacketLost ==
    /\ \A m \in Packets :
          Count(accepted, m) <= Count(Flatten(batches), m) + Count(message_buffer, m)
    /\ (pc[Main] = "clear_buffer" /\ message_buffer # <<>>) =>
          (batches # <<>> /\ batches[Len(batches)] = message_buffer)

\* a producer waits to append while the main thread is about to clear a
\* batch it has replayed
C4_Witness ==
    /\ pc[Main] = "clear_buffer"
    /\ message_buffer # <<>>
    /\ \E p \in Producers : pc[p] = "acquire"

(***************************************************************************)
(* C5. Refresh: a timeout fires only when more than the quiet period has   *)
(* passed since the latest accept.  With a quiet period of 2 and accepts   *)
(* at times 0, 1 and 2: up to time 4 the three packets stay queued and no  *)
(* poll fires; the first poll after time 4 finds the timestamp 2, times    *)
(* out, and replays the three packets.                                     *)
(***************************************************************************)
C5_RefreshSemantics ==
    /\ pc[Main] \in FiredStates =>
          (last_accept # None /\ now - Val(last_accept) > Timeout)
    /\ (refresh_run = 3 /\ now <= 4 /\ buffer_lock \notin Producers) =>
          (Len(message_buffer) = 3 /\ pc[Main] \notin FiredStates /\ batches = <<>>)
    /\ (refresh_run = 3 /\ now > 4 /\ pc[Main] = "check" /\ batches = <<>>) =>
          (/\ last_message_time = Some(2)
           /\ TimedOut(Elapsed)
           /\ Len(message_buffer) = 3)
    /\ (refresh_run = 3 /\ pc[Main] = "clear_buffer") =>
          (batches = <<message_buffer>> /\ Len(message_buffer) = 3)

\* accepts at 0, 1 and 2, and the poll at time 5 has replayed all three
C5_Witness ==
    /\ refresh_run = 3
    /\ now = 5
    /\ pc[Main] = "clear_buffer"
    /\ Len(batches[1]) = 3

(***************************************************************************)
(* C6. A _check_timeout call that timed out returns with the queue empty   *)
(* and the timestamp absent, however the packets of its batch fared.       *)
(***************************************************************************)
C6_ReturnsIdle ==
    (pc[Main] \in FiredStates /\ pc'[Main] = "idle") =>
        (message_buffer' = <<>> /\ last_message_time' = None)

C6_StateAlwaysResets == [][C6_ReturnsIdle]_vars

\* the call is about to return after a batch of which every publish failed
C6_Witness ==
    /\ pc[Main] = "check_release"
    /\ report # None
    /\ Val(report).succeeded = 0
    /\ Val(report).failed >= 2
    /\ message_buffer = <<>>
    /\ last_message_time = None

(***************************************************************************)
(* C7. Batch partial failure: a replay handles every packet of the batch   *)
(* exactly once whatever happened to the ones before it, every packet      *)
(* that can be rewritten is handed to publish, and the counts reported     *)
(* satisfy succeeded + failed = total = size of the batch, succeeded being *)
(* the number of publishes that returned success.                          *)
(***************************************************************************)
C7_BatchPartialFailure ==
    /\ pc[Main] = "replay" =>
          (/\ Len(results) = idx - 1
           /\ batches[Len(batches)] = SubSeq(message_buffer, 1, idx - 1))
    /\ report # None =>
          (/\ Val(report).succeeded + Val(report).failed = Val(report).total
           /\ Val(report).total = Len(batches[Len(batches)])
           /\ Len(results) = Val(report).total
           /\ Val(report).succeeded = Count(results, MQTT_ERR_SUCCESS))
    /\ pc[Main] = "clear_buffer" =>
          (report # None /\ batches[Len(batches)] = message_buffer)
    /\ Len(published) = Len(Flatten(batches))

\* three packets, the publish of the second fails: 2 succeeded, 1 failed
C7_Witness ==
    /\ report = Some([succeeded |-> 2, failed |-> 1, total |-> 3])
    /\ results[2] # MQTT_ERR_SUCCESS
    /\ Len(published) = 3

(***************************************************************************)
(* C8. Replay order: the i-th publish call carries the rewritten form of   *)
(* the i-th accepted packet and names the configured topic; the queue      *)
(* holds the latest accepted packets in the order of their accepts; and a  *)
(* replay whose publishes all succeed made as many calls as the queue      *)
(* holds packets.                                                          *)
(***************************************************************************)
C8_ReplayOrder ==
    /\ Len(published) <= Len(accepted)
    /\ \A i \in DOMAIN published :
          /\ published[i].payload = ModifiedMsg(accepted[i])
          /\ published[i].topic = PublishTopic
    /\ Len(message_buffer) <= Len(accepted)
    /\ message_buffer =
          SubSeq(accepted, Len(accepted) - Len(message_buffer) + 1, Len(accepted))
    /\ (pc[Main] = "clear_buffer" /\ Val(report).succeeded = Val(report).total) =>
          /\ Len(published) >= Len(message_buffer)
          /\ \A i \in DOMAIN message_buffer :
                published[Len(published) - Len(message_buffer) + i].payload
                    = ModifiedMsg(message_buffer[i])

\* one batch of two different packets has been published
C8_Witness ==
    /\ Len(batches) = 1
    /\ Len(published) = 2
    /\ published[1].payload # published[2].payload
    /\ report # None

(***************************************************************************)
(* C9. Replay rewrite: the packet published for a buffered packet p        *)
(* decodes to the relay's uid and to the callsign prefix + p's callsign,   *)
(* cut to the longest prefix that fits 12 UTF-8 bytes; version, padding1   *)
(* and padding2 are p's, and the bytes from 22 on are p's.                 *)
(***************************************************************************)
C9_RewriteOf(p, q) ==
    LET h == from_bytes(p)
        g == from_bytes(q)
    IN  /\ g.uid = RelayUid
        /\ g.callsign = CutText(CallsignPrefix \o h.callsign, CALLSIGN_SIZE)
        /\ g.version = h.version
        /\ g.padding1 = h.padding1
        /\ g.padding2 = h.padding2
        /\ Drop(q, HEADER_SIZE) = Drop(p, HEADER_SIZE)

C9_ReplayRewrite ==
    \A i \in DOMAIN published :
        i <= Len(accepted) => C9_RewriteOf(accepted[i], published[i].payload)

(***************************************************************************)
(* C10. Timeout idempotence: a step of _check_timeout taken while the      *)
(* timestamp is absent changes neither the queue nor the timestamp,        *)
(* publishes nothing and starts no replay; after a timeout has cleared the *)
(* state, the polls that follow without a new accept do nothing, so no     *)
(* packet is replayed twice.                                               *)
(***************************************************************************)
C10_IdlePollIsNoOp ==
    (MainStep /\ last_message_time = None) =>
        /\ UNCHANGED <<message_buffer, last_message_time, published, batches>>
        /\ pc'[Main] \in {"check", "idle"}

C10_ReplayedOnce == Len(Flatten(batches)) <= Len(accepted)

C10_TimeoutIdempotence == []C10_ReplayedOnce /\ [][C10_IdlePollIsNoOp]_vars

\* a poll after a timeout has cleared the state: no accept since, and the
\* quiet period is long past
C10_Witness ==
    /\ pc[Main] = "check"
    /\ last_message_time = None
    /\ batches # <<>>
    /\ \A p \in Producers : pc[p] = "idle"
    /\ now - Val(last_accept) > Timeout

(***************************************************************************)
(* C11. Strict threshold: a _check_timeout call that reads a timestamp and *)
(* finds elapsed <= timeout (elapsed = timeout included) returns at once:  *)
(* it publishes nothing, starts no replay, and leaves the queue and the    *)
(* timestamp as they were.                                                 *)
(***************************************************************************)
C11_NotElapsedStep ==
    (/\ pc[Main] = "check"
     /\ MainStep
     /\ last_message_time # None
     /\ Elapsed <= Timeout) =>
        /\ UNCHANGED <<message_buffer, last_message_time, published, batches>>
        /\ pc'[Main] = "idle"
        /\ buffer_lock' = Free

C11_StrictThreshold == [][C11_NotElapsedStep]_vars

\* a poll reads a timestamp exactly one quiet period old, with packets queued
C11_Witness ==
    /\ pc[Main] = "check"
    /\ last_message_time # None
    /\ Elapsed = Timeout
    /\ message_buffer # <<>>

(***************************************************************************)
(* C12. Empty-queue timeout: a _check_timeout call that finds a timestamp  *)
(* older than the timeout and an empty buffer makes no publish call and    *)
(* starts no replay, and still goes through the reset: it returns with the *)
(* timestamp absent and the buffer empty.                                  *)
(***************************************************************************)
C12_EmptyTimeoutStep ==
    (/\ pc[Main] = "check"
     /\ MainStep
     /\ last_message_time # None
     /\ TimedOut(Elapsed)
     /\ message_buffer = <<>>) =>
        /\ pc'[Main] = "clear_buffer"
        /\ UNCHANGED <<published, batches, report>>

C12_EmptyTimeoutResets ==
    /\ (pc[Main] \in {"clear_buffer", "clear_time", "check_release"} /\ report = None) =>
          (published = <<>> /\ batches = <<>> /\ message_buffer = <<>>)
    /\ pc[Main] = "check_release" =>
          (last_message_time = None /\ message_buffer = <<>>)

C12_ReturnsIdle ==
    (pc[Main] = "check_release" /\ MainStep) =>
        /\ pc'[Main] = "idle"
        /\ buffer_lock' = Free
        /\ message_buffer' = <<>>
        /\ last_message_time' = None
        /\ published' = published

C12_EmptyQueueTimeout ==
    /\ []C12_EmptyTimeoutResets
    /\ [][C12_EmptyTimeoutStep]_vars
    /\ [][C12_ReturnsIdle]_vars

\* the call is about to return from a timeout that found the buffer empty
C12_Witness ==
    /\ pc[Main] = "check_release"
    /\ report = None
    /\ accepted = <<>>
    /\ published = <<>>
    /\ last_message_time = None

(***************************************************************************)
(* C13. Concurrent producers: as long as no timeout has fired, the buffer  *)
(* holds one entry for every _on_message call that accepted its packet and *)
(* has done its append, in the order of the appends: none is lost, none    *)
(* twice.  When every call has returned, the buffer holds as many packets  *)
(* as acceptable packets were delivered.                                   *)
(***************************************************************************)
C13_Buffered == deliveries - ignored - errors
C13_NotYetAppended == Cardinality({p \in Producers : pc[p] \in {"acquire", "append"}})

C13_ConcurrentProducers ==
    (batches = <<>> /\ pc[Main] \notin FiredStates) =>
        /\ Len(message_buffer) = C13_Buffered - C13_NotYetAppended
        /\ message_buffer = accepted
        /\ (\A p \in Producers : pc[p] = "idle") => Len(message_buffer) = C13_Buffered

\* two packets are in the buffer; one producer is still inside the with
\* statement while the other waits at it with a third packet
C13_Witness ==
    /\ pc["net1"] = "release"
    /\ pc["net2"] = "acquire"
    /\ Len(message_buffer) = 2
    /\ batches = <<>>
    /\ pc[Main] \notin FiredStates

(***************************************************************************)
(* C14. No retries: the replays walk the accepted packets once, in order   *)
(* (the batches, put end to end, are a prefix of the accepted packets),    *)
(* each iteration makes at most one publish call, and once a batch has     *)
(* been cleared the buffer holds only packets no replay has walked: a      *)
(* packet whose publish failed is not kept and not published again.        *)
(***************************************************************************)
C14_Replayed == Len(Flatten(batches))

C14_NoRetries ==
    /\ C14_Replayed <= Len(accepted)
    /\ Flatten(batches) = SubSeq(accepted, 1, C14_Replayed)
    /\ Len(published) <= C14_Replayed
    /\ pc[Main] \notin {"replay", "clear_buffer"} =>
          message_buffer = SubSeq(accepted, C14_Replayed + 1, Len(accepted))
    /\ pc[Main] = "replay" =>
          message_buffer = SubSeq(accepted, C14_Replayed - (idx - 1) + 1, Len(accepted))

\* a second batch, whose only publish failed, has been cleared
C14_Witness ==
    /\ pc[Main] = "check_release"
    /\ Len(batches) = 2
    /\ results = <<"MQTT_ERR_NO_CONN">>
    /\ message_buffer = <<>>
    /\ Len(published) = Len(accepted)

(***************************************************************************)
(* C16. No feedback loop: every packet the relay has published carries the *)
(* relay's uid, so its delivery back to _on_message is dropped; no packet  *)
(* the relay published is in the buffer, on its way into it, or among the  *)
(* accepted packets, and the relay has made at most one publish call per   *)
(* accepted foreign packet.                                                *)
(***************************************************************************)
C16_Echoes == {published[i].payload : i \in DOMAIN published}

C16_NoFeedbackLoop ==
    /\ \A m \in C16_Echoes : from_bytes(m).uid = RelayUid /\ ~ShouldBuffer(m)
    /\ \A i \in DOMAIN accepted :
          accepted[i] \notin C16_Echoes /\ from_bytes(accepted[i]).uid # RelayUid
    /\ \A i \in DOMAIN message_buffer : message_buffer[i] \notin C16_Echoes
    /\ \A p \in Producers : pc[p] # "idle" => Val(msg[p]) \notin C16_Echoes
    /\ echoed <= ignored
    /\ Len(published) <= Len(accepted)
    /\ Len(Flatten(batches)) <= Len(accepted)

\* the packet the relay published came back and was dropped; a quiet
\* period later nothing is buffered and no further replay has started
C16_Witness ==
    /\ Len(published) = 1
    /\ echoed = 1
    /\ accepted = <<WideMsg>>
    /\ Len(batches) = 1
    /\ message_buffer = <<>>
    /\ last_message_time = None
    /\ pc[Main] = "idle"
    /\ now - Val(last_accept) > 2 * Timeout

(***************************************************************************)
(* C18. Mutual exclusion: at most one thread is inside a with statement on *)
(* buffer_lock: the append and timestamp of one _on_message call never     *)
(* overlap those of another, nor the test, replay and reset of             *)
(* _check_timeout; and the thread inside is the one holding the lock.      *)
(***************************************************************************)
C18_InCriticalSection(t) ==
    IF t = Main
    THEN pc[t] \in {"check", "replay", "clear_buffer", "clear_time", "check_release"}
    ELSE pc[t] \in {"append", "set_time", "release"}

C18_MutualExclusion ==
    /\ Cardinality({t \in Threads : C18_InCriticalSection(t)}) <= 1
    /\ \A t \in Threads : C18_InCriticalSection(t) <=> buffer_lock = t

\* the main thread is replaying while both producers wait for the lock
C18_Witness ==
    /\ pc[Main] = "replay"
    /\ \A p \in Producers : pc[p] = "acquire"
    /\ buffer_lock = Main

(***************************************************************************)
(* C19. Payload preservation: replace_header_in_stream returns the new     *)
(* header followed by the bytes of the stream from byte 22 on, unchanged,  *)
(* so the result is as long as the stream (an empty payload included);     *)
(* and on a stream of at least 22 bytes with updates of the five fields,   *)
(* values in range, the call returns.                                      *)
(***************************************************************************)
C19_ValidUpdate(call) ==
    /\ call.keys \subseteq HeaderFields
    /\ "version" \in call.keys => Fits(call.values.version, 4)
    /\ "uid" \in call.keys => Fits(call.values.uid, 2)
    /\ "padding1" \in call.keys => Fits(call.values.padding1, 2)
    /\ "padding2" \in call.keys => Fits(call.values.padding2, 2)

C19_PayloadPreserved ==
    codec_call.op = "replace_header_in_stream" =>
        /\ codec_pc \in {"returned", "decoded"} =>
              /\ Drop(codec_ret, HEADER_SIZE) = Drop(codec_call.stream, HEADER_SIZE)
              /\ Len(codec_ret) = Len(codec_call.stream)
        /\ (/\ codec_pc # "start"
            /\ Len(codec_call.stream) >= HEADER_SIZE
            /\ C19_ValidUpdate(codec_call)) => codec_pc \in {"returned", "decoded"}

\* uid and callsign of a packet with a four-byte payload were replaced
C19_Witness ==
    /\ codec_call.op = "replace_header_in_stream"
    /\ codec_pc = "returned"
    /\ codec_call.keys = {"uid", "callsign"}
    /\ Drop(codec_call.stream, HEADER_SIZE) = <<222, 173, 190, 239>>
    /\ Take(codec_ret, HEADER_SIZE) # Take(codec_call.stream, HEADER_SIZE)

(***************************************************************************)
(* C20. Round trip: for a header whose numeric fields are in range and     *)
(* whose callsign takes at most 12 UTF-8 bytes, from_bytes(to_bytes(h))    *)
(* has the version, padding1, uid, padding2 and callsign of h.             *)
(***************************************************************************)
C20_Fits12(h) == Len(Utf8Encode(h.callsign)) <= CALLSIGN_SIZE

C20_RoundTrip ==
    (/\ codec_call.op = "to_bytes"
     /\ codec_pc = "decoded"
     /\ C20_Fits12(codec_call.header)) => Val(codec_back) = codec_call.header

(***************************************************************************)
(* C20, amended. Round trip for a callsign that, besides taking at most 12 *)
(* UTF-8 bytes, does not end with U+0000: from_bytes(to_bytes(h)) = h in   *)
(* every field, and to_bytes raises for no header with fields in range.    *)
(* (A trailing U+0000 is the padding byte: from_bytes strips it.)          *)
(***************************************************************************)
C20_NoTrailingNul(h) == h.callsign = <<>> \/ h.callsign[Len(h.callsign)] # 0

C20_RoundTripNoTrailingNul ==
    codec_call.op = "to_bytes" =>
        /\ (/\ codec_pc = "decoded"
            /\ C20_Fits12(codec_call.header)
            /\ C20_NoTrailingNul(codec_call.header)) =>
               Val(codec_back) = codec_call.header
        /\ (codec_pc # "start" /\ ~ToBytesRaises(codec_call.header)) =>
               codec_pc \in {"returned", "decoded"}

\* a callsign of exactly 12 bytes, two of them one character, went round
C20_Witness ==
    /\ codec_call.op = "to_bytes"
    /\ codec_pc = "decoded"
    /\ Len(Utf8Encode(codec_call.header.callsign)) = CALLSIGN_SIZE
    /\ Len(codec_call.header.callsign) < CALLSIGN_SIZE
    /\ C20_NoTrailingNul(codec_call.header)
    /\ Val(codec_back) = codec_call.header

(***************************************************************************)
(* C17. Replay liveness: with packets accepted and a timestamp t set,      *)
(* while run() keeps polling, either a later accept moves the timestamp or *)
(* a replay fires and the state returns to idle, buffer empty and          *)
(* timestamp absent.  A poll that reads a timestamp more than the timeout  *)
(* old never returns without firing, so the replay fires at the first such *)
(* poll.  (Timestamps late enough for the clock to stop before the timeout *)
(* has passed are left out.)                                               *)
(***************************************************************************)
C17_Accumulating(t) ==
    /\ last_message_time = Some(t)
    /\ message_buffer # <<>>

C17_FiredOrRefreshed(t) ==
    \/ /\ last_message_time = None
       /\ message_buffer = <<>>
       /\ batches # <<>>
    \/ /\ last_message_time # None
       /\ Val(last_message_time) > t

C17_ElapsedPollStep ==
    (/\ pc[Main] = "check"
     /\ MainStep
     /\ last_message_time # None
     /\ message_buffer # <<>>
     /\ now - Val(last_message_time) > Timeout) =>
        /\ pc'[Main] = "replay"
        /\ Len(batches') = Len(batches) + 1

C17_ReplayLiveness ==
    /\ \A t \in 0..(MaxTime - Timeout - 1) :
          C17_Accumulating(t) ~> C17_FiredOrRefreshed(t)
    /\ [][C17_ElapsedPollStep]_vars

\* the poll at the first instant past the timeout has fired, and the call
\* has returned with the state idle
C17_Witness ==
    /\ client = "started"
    /\ running
    /\ pc[Main] = "idle"
    /\ batches # <<>>
    /\ last_accept # None
    /\ now - Val(last_accept) = Timeout + 1
    /\ last_message_time = None
    /\ message_buffer = <<>>

(***************************************************************************)
(* C15. Clean cancellation: when SIGINT / SIGTERM is handled while the     *)
(* main thread is inside a _check_timeout call, the call goes on to        *)
(* return; and if it was replaying, every packet of the buffer is handed   *)
(* to the replay before the buffer is cleared.                             *)
(***************************************************************************)
C15_InCheckTimeout == pc[Main] \in {"check"} \cup FiredStates

C15_Interrupted == C15_InCheckTimeout /\ stop_pc # "none"

C15_BatchDone ==
    /\ pc[Main] = "clear_buffer"
    /\ batches # <<>>
    /\ Len(batches[Len(batches)]) = Len(message_buffer)

C15_CleanCancellation ==
    /\ C15_Interrupted ~> ~C15_InCheckTimeout
    /\ (C15_Interrupted /\ pc[Main] = "replay") ~> C15_BatchDone

(***************************************************************************)
(* C21. Truncation: for a header whose callsign takes more than 12 UTF-8   *)
(* bytes, from_bytes(to_bytes(h)) has a callsign that is a prefix of h's,  *)
(* takes at most 12 UTF-8 bytes, and is h's callsign cut at the last       *)
(* code-point boundary at or below 12 bytes (less the U+0000 the decoder   *)
(* strips).                                                                *)
(***************************************************************************)
IsPrefix(s, t) == Len(s) <= Len(t) /\ s = SubSeq(t, 1, Len(s))

C21_Truncation ==
    (/\ codec_call.op = "to_bytes"
     /\ codec_pc = "decoded"
     /\ Len(Utf8Encode(codec_call.header.callsign)) > CALLSIGN_SIZE) =>
        LET callsign == Val(codec_back).callsign
        IN  /\ IsPrefix(callsign, codec_call.header.callsign)
            /\ Len(Utf8Encode(callsign)) <= CALLSIGN_SIZE
            /\ Utf8Encode(callsign) =
                  RStripNul(Utf8Encode(CutText(codec_call.header.callsign, CALLSIGN_SIZE)))

(***************************************************************************)
(* C22. Unknown fields are rejected: a replace_header_in_stream call on a  *)
(* stream of at least 22 bytes with a keyword that is not version, uid,    *)
(* callsign, padding1 or padding2 raises AttributeError and returns no     *)
(* packet.                                                                 *)
(***************************************************************************)
C22_RejectsUnknownFields ==
    (/\ codec_call.op = "replace_header_in_stream"
     /\ codec_pc # "start"
     /\ Len(codec_call.stream) >= HEADER_SIZE
     /\ ~(codec_call.keys \subseteq HeaderFields)) =>
        /\ codec_pc = "raised"
        /\ codec_exc = "AttributeError"
        /\ codec_ret = <<>>

(***************************************************************************)
(* C23. Only the named fields change: after replace_header_in_stream on a  *)
(* packet of at least 22 bytes, with keywords among the five fields, every *)
(* field that is not a keyword of the call decodes from the result to the  *)
(* value it decodes to from the input.                                     *)
(***************************************************************************)
C23_OnlyNamedFieldsChange ==
    (/\ codec_call.op = "replace_header_in_stream"
     /\ codec_pc = "decoded"
     /\ codec_call.keys \subseteq HeaderFields) =>
        \A k \in HeaderFields \ codec_call.keys :
            Val(codec_back)[k] = from_bytes(codec_call.stream)[k]

(***************************************************************************)
(* C24. from_bytes raises ValueError on every input of fewer than 22       *)
(* bytes, the empty input included, and returns a header on every input of *)
(* 22 bytes or more.                                                       *)
(***************************************************************************)
C24_ShortInputRejected ==
    (codec_call.op = "from_bytes" /\ codec_pc # "start") =>
        IF Len(codec_call.stream) < HEADER_SIZE
        THEN codec_pc = "raised" /\ codec_exc = "ValueError" /\ codec_ret = <<>>
        ELSE /\ codec_pc = "returned"
             /\ codec_exc = NoError
             /\ DOMAIN codec_ret = HeaderFields

\* the call on the first 21 bytes of the test packet has raised
C24_Witness ==
    /\ codec_call.op = "from_bytes"
    /\ Len(codec_call.stream) = HEADER_SIZE - 1
    /\ codec_pc = "raised"
    /\ codec_exc = "ValueError"

(***************************************************************************)
(* C25. Accept-path error isolation: an _on_message call whose payload is  *)
(* too short to hold a header only logs the error: the callback returns    *)
(* (its thread is ready for the next message), and the buffer, the         *)
(* timestamp, the lock and the published packets are as before.  The       *)
(* deliveries made once an error has been logged are handled as any other: *)
(* each is logged as an error, dropped as the relay's own, or goes on to    *)
(* the append, and none is unaccounted for.                                *)
(***************************************************************************)
C25_ErrorStep ==
    errors' # errors =>
        /\ errors' = errors + 1
        /\ deliveries' = deliveries + 1
        /\ UNCHANGED <<message_buffer, last_message_time, buffer_lock, pc, msg,
                       published, accepted, last_accept>>

C25_FollowingStep ==
    (errors > 0 /\ deliveries' # deliveries) =>
        \/ errors' = errors + 1 /\ ignored' = ignored /\ pc' = pc
        \/ errors' = errors /\ ignored' = ignored + 1 /\ pc' = pc
        \/ /\ errors' = errors
           /\ ignored' = ignored
           /\ \E p \in Producers :
                 /\ pc[p] = "idle"
                 /\ pc' = [pc EXCEPT ![p] = "acquire"]
                 /\ msg'[p] # None
                 /\ ShouldBuffer(Val(msg'[p]))

C25_Accounted ==
    /\ \A p \in Producers : pc[p] \in {"idle", "acquire", "append", "set_time", "release"}
    /\ deliveries = errors + ignored + Len(accepted) + C13_NotYetAppended

C25_ErrorIsolation ==
    /\ [][C25_ErrorStep]_vars
    /\ [][C25_FollowingStep]_vars
    /\ []C25_Accounted

\* one delivery was too short and one was accepted; both callbacks returned
C25_Witness ==
    /\ errors = 1
    /\ deliveries = 2
    /\ message_buffer = <<TestMsg>>
    /\ last_message_time # None
    /\ \A p \in Producers : pc[p] = "idle"

(***************************************************************************)
(* C26. Encoded size: to_bytes returns for every header whose numeric      *)
(* fields are in range, and what it returns is exactly 22 bytes, whether   *)
(* the callsign is empty, shorter than 12 bytes, exactly 12 bytes or       *)
(* longer.                                                                 *)
(***************************************************************************)
C26_EncodedSize ==
    codec_call.op = "to_bytes" =>
        /\ codec_pc \in {"returned", "decoded"} =>
              /\ Len(codec_ret) = HEADER_SIZE
              /\ \A i \in DOMAIN codec_ret : codec_ret[i] \in 0..255
        /\ codec_pc = "raised" => ToBytesRaises(codec_call.header)

\* a callsign of 18 bytes was cut to the full header size
C26_Witness ==
    /\ codec_call.op = "to_bytes"
    /\ codec_pc = "returned"
    /\ Len(Utf8Encode(codec_call.header.callsign)) = 18
    /\ Len(codec_ret) = HEADER_SIZE

(***************************************************************************)
(* C27. Payload independence: two packets with the same first 22 bytes and *)
(* different payloads decode to the same header, get the same decision     *)
(* from the uid test of _on_message, and get the same 22 header bytes (or  *)
(* the same exception) from replace_header_in_stream with the same         *)
(* keywords.                                                               *)
(***************************************************************************)
\* the packets that differ from d in their payload only
C27_SameHeader(d) ==
    {e \in CodecStreams :
        Len(e) >= HEADER_SIZE /\ Take(e, HEADER_SIZE) = Take(d, HEADER_SIZE) /\ e # d}

C27_PayloadIndependence ==
    LET d == codec_call.stream
    IN  /\ (codec_call.op = "from_bytes" /\ codec_pc = "returned") =>
              \A e \in C27_SameHeader(d) :
                  /\ ~FromBytesRaises(e)
                  /\ from_bytes(e) = codec_ret
                  /\ ShouldBuffer(e) = ShouldBuffer(d)
                  /\ IsOwnReplay(e) = IsOwnReplay(d)
        /\ (codec_call.op = "replace_header_in_stream" /\ codec_pc = "returned") =>
              \A e \in C27_SameHeader(d) :
                  /\ ~ReplaceRaises(e, UpdatesOf(codec_call))
                  /\ Take(replace_header_in_stream(e, UpdatesOf(codec_call)), HEADER_SIZE)
                        = Take(codec_ret, HEADER_SIZE)
        /\ (codec_call.op = "replace_header_in_stream" /\ codec_pc = "raised") =>
              \A e \in C27_SameHeader(d) :
                  ReplaceError(e, UpdatesOf(codec_call)) = codec_exc

\* a packet with a four-byte payload was decoded, and the inputs hold the
\* same header with no payload and with a one-byte payload
C27_Witness ==
    /\ codec_call.op = "from_bytes"
    /\ codec_pc = "returned"
    /\ Drop(codec_call.stream, HEADER_SIZE) = <<222, 173, 190, 239>>
    /\ Cardinality(C27_SameHeader(codec_call.stream)) = 2

(***************************************************************************)
(* C28. Malformed callsign text is not an error: from_bytes returns on     *)
(* every input of at least 22 bytes, whatever its 12 callsign bytes        *)
(* (invalid UTF-8 decodes to U+FFFD); replace_header_in_stream returns on  *)
(* such a packet when its keywords are fields with values in range; and    *)
(* the replay's rewrite of such a packet raises nothing and yields a       *)
(* packet of the same length.                                              *)
(***************************************************************************)
C28_MalformedCallsignAccepted ==
    LET d == codec_call.stream
    IN  /\ (codec_call.op = "from_bytes" /\ codec_pc # "start"
              /\ Len(d) >= HEADER_SIZE) =>
              /\ codec_pc = "returned"
              /\ ~ReplayRaises(d)
              /\ Len(ModifiedMsg(d)) = Len(d)
              /\ ~FromBytesRaises(ModifiedMsg(d))
        /\ (codec_call.op = "replace_header_in_stream" /\ codec_pc # "start"
              /\ Len(d) >= HEADER_SIZE /\ C19_ValidUpdate(codec_call)) =>
              /\ codec_pc \in {"returned", "decoded"}
              /\ codec_exc = NoError

\* callsign bytes FF 42 C0 80 ED A0 80 41 were decoded, to text with U+FFFD
C28_Witness ==
    /\ codec_call.op = "from_bytes"
    /\ codec_pc = "returned"
    /\ SubSeq(codec_call.stream, 11, 13) = <<255, 66, 192>>
    /\ codec_ret.callsign[1] = ReplacementChar
    /\ codec_ret.callsign[2] = 66

(***************************************************************************)
(* C29. Wire layout: from_bytes reads version from bytes 0-3, padding1     *)
(* from bytes 4-5, uid from bytes 6-7 and padding2 from bytes 8-9, low     *)
(* byte first, and the callsign from bytes 10-21; to_bytes writes the same *)
(* layout.  The reference packet 01 00 00 00 00 00 B9 01 00 00 'BD8BOJ'    *)
(* decodes to version 1, uid 441, callsign BD8BOJ.  (Bytes are numbered    *)
(* from 0 in the text and from 1 in the formulas.)                         *)
(***************************************************************************)
C29_Decoded(b, h) ==
    /\ h.version = b[1] + 256 * b[2] + 65536 * b[3] + 16777216 * b[4]
    /\ h.padding1 = b[5] + 256 * b[6]
    /\ h.uid = b[7] + 256 * b[8]
    /\ h.padding2 = b[9] + 256 * b[10]
    /\ h.callsign = Utf8DecodeReplace(RStripNul(SubSeq(b, 11, 22)))

C29_Encoded(h, b) ==
    /\ \A i \in 1..4 :
          b[i] = (h.version \div (IF i = 1 THEN 1 ELSE IF i = 2 THEN 256
                                  ELSE IF i = 3 THEN 65536 ELSE 16777216)) % 256
    /\ b[5] = h.padding1 % 256 /\ b[6] = h.padding1 \div 256
    /\ b[7] = h.uid % 256      /\ b[8] = h.uid \div 256
    /\ b[9] = h.padding2 % 256 /\ b[10] = h.padding2 \div 256
    /\ LET text == Take(Utf8Encode(h.callsign), CALLSIGN_SIZE)
       IN  \A i \in 1..CALLSIGN_SIZE :
               b[10 + i] = IF i <= Len(text) THEN text[i] ELSE 0

C29_WireLayout ==
    /\ (codec_call.op = "from_bytes" /\ codec_pc = "returned") =>
          /\ C29_Decoded(codec_call.stream, codec_ret)
          /\ codec_call.stream = TestMsg =>
                codec_ret = FMORawHeader(1, 441, <<66, 68, 56, 66, 79, 74>>, 0, 0)
    /\ (codec_call.op = "to_bytes" /\ codec_pc \in {"returned", "decoded"}) =>
          C29_Encoded(codec_call.header, codec_ret)

\* a packet with padding1 = 0xABCD and uid = 441 was decoded
C29_Witness ==
    /\ codec_call.op = "from_bytes"
    /\ codec_pc = "returned"
    /\ SubSeq(codec_call.stream, 5, 8) = <<205, 171, 185, 1>>
    /\ codec_ret.padding1 = 43981
    /\ codec_ret.uid = 441

(***************************************************************************)
(* C30. validate_config returns True for the default configuration, and    *)
(* raises ValueError for a configuration that lacks the mqtt, topics, echo *)
(* or logging section, has an empty broker, a port that is not an integer  *)
(* in 1..65535, an echo timeout that is not a number greater than 0, an    *)
(* echo uid that is not an integer in 0..65535, or a logging level outside *)
(* DEBUG / INFO / WARNING / ERROR / CRITICAL.  (As in Python, True and     *)
(* False count as the integers 1 and 0.)                                   *)
(***************************************************************************)
C30_IntegerIn(v, lo, hi) == v.t \in {"int", "bool"} /\ v.n \in lo..hi

C30_NumberAboveZero(v) == v.t \in {"int", "bool", "float"} /\ v.n > 0

C30_Invalid(c) ==
    \/ \E x \in {"mqtt", "topics", "echo", "logging"} : x \notin c.sections
    \/ c.broker \in {StrV(""), NoneV}
    \/ ~C30_IntegerIn(c.port, 1, 65535)
    \/ ~C30_NumberAboveZero(c.timeout)
    \/ ~C30_IntegerIn(c.uid, 0, 65535)
    \/ c.level \notin {StrV(x) : x \in {"DEBUG", "INFO", "WARNING", "ERROR", "CRITICAL"}}

C30_ValidateConfig ==
    validated # "no" =>
        /\ config = DEFAULT_CONFIG => validated = "True"
        /\ C30_Invalid(config) => validated = "ValueError"

(***************************************************************************)
(* deep_merge (C31).                                                       *)
(***************************************************************************)
RECURSIVE MergedByRule(_, _)
\* the mapping the merge rule describes: the override's value under every
\* key of the override, but the recursive merge where both sides hold a
\* mapping; the base's value under the keys only the base has
MergedByRule(b, o) ==
    [k \in DOMAIN b \cup DOMAIN o |->
        IF k \notin DOMAIN o THEN b[k]
        ELSE IF k \in DOMAIN b /\ b[k].isdict /\ o[k].isdict
             THEN Dict(MergedByRule(b[k].items, o[k].items))
        ELSE o[k]]

\* C31: once deep_merge(base, override) has returned, the returned
\* dictionary holds, for every key of the override, the override's value,
\* or the recursive merge of the two values when both are mappings; keys
\* only in the base keep the base's value; and no dictionary that existed
\* before the call (base and its nested dictionaries included) was modified.
C31_DeepMerge ==
    merge_ret # 0 =>
        /\ TreeOf(merge_heap, merge_ret)
               = MergedByRule(merge_call.base, merge_call.override)
        /\ TreeOf(merge_heap, BaseId) = merge_call.base
        /\ SubSeq(merge_heap, 1, Len(MergeHeap(merge_call)))
               = MergeHeap(merge_call)

\* the call of the merge test has returned: the nested key c is overridden,
\* the nested key d is kept, the top-level key e is overridden, f is new
C31_Witness ==
    /\ merge_ret # 0
    /\ merge_call = [base |-> TestBase, override |-> TestOverride]
    /\ TreeOf(merge_heap, merge_ret)
           = [a |-> Leaf(1), b |-> Dict([c |-> Leaf(99), d |-> Leaf(3)]),
              e |-> Leaf(5), f |-> Leaf(6)]

(***************************************************************************)
(* C32. The timestamp tracks the last accept.                              *)
(***************************************************************************)
\* Accumulating, seen outside a producer's critical section
C32_Accumulating ==
    /\ message_buffer # <<>>
    /\ last_message_time # None
    /\ buffer_lock \notin Producers

C32_NeverDecreases ==
    (last_message_time # None /\ last_message_time' # None) =>
        Val(last_message_time') >= Val(last_message_time)

\* C32: whenever the queue is non-empty and the timestamp set, the timestamp
\* is the clock value read by the accept of the most recently appended
\* packet, whichever producer made it; and no step takes a set timestamp to
\* a smaller one (the clock never goes back).
C32_TimestampTracksAccept ==
    /\ [](C32_Accumulating => last_message_time = last_accept)
    /\ [][C32_NeverDecreases]_vars

\* two accepts, at times 0 and 1: the timestamp is that of the second,
\* while the other producer waits for the lock with a third packet
C32_Witness ==
    /\ C32_Accumulating
    /\ buffer_lock = Free
    /\ refresh_run = 2
    /\ Len(message_buffer) = 2
    /\ last_message_time = Some(1)
    /\ \E p \in Producers : pc[p] = "acquire"

(***************************************************************************)
(* C33. stop() performs the documented cleanup.                            *)
(***************************************************************************)
\* a call of stop() returns in this step
C33_StopReturns == stop_pc # "none" /\ stop_pc' = "none"

\* C33: whenever a call of stop() returns on a service whose MQTT client
\* has been created, running is false, the client's network loop has been
\* stopped and the client disconnected, whether or not run() had been
\* entered before the call.
C33_StopCleansUp ==
    [][(C33_StopReturns /\ client # "none") =>
           (~running' /\ client' = "stopped")]_vars

(***************************************************************************)
(* C34. Stop terminates.                                                   *)
(***************************************************************************)
\* a signal has just been delivered while run() is polling: the handler's
\* call of stop() is about to start on the main thread
C34_SignalInLoop == stop_pc = "test" /\ running /\ signals > 0

\* C34: a SIGINT / SIGTERM handled on the main thread at any point of the
\* poll loop, inside _check_timeout with the buffer lock held included,
\* leads to stop() having acquired the lock and returned and to run()
\* having terminated.
C34_StopTerminates ==
    C34_SignalInLoop ~> (stop_pc = "none" /\ pc[Main] = "exited")

(***************************************************************************)
(* C35. A stop request is not lost.                                        *)
(***************************************************************************)
\* a stop signal was handled after construction and before run() has set
\* running to true: the handler's call of stop() has returned
C35_StoppedBeforeRun ==
    /\ signals > 0
    /\ stop_pc = "none"
    /\ pc[Main] \in {"created", "connected"}

\* C35: if a stop signal is handled after the service is constructed but
\* before run() has set running to true, run() still terminates instead of
\* polling indefinitely.
C35_StopRequestNotLost == C35_StoppedBeforeRun ~> pc[Main] = "exited"

(***************************************************************************)
(* C36. Batches partition the accepted stream.                             *)
(***************************************************************************)
\* a replay is going through the queue, or has gone through it and the
\* queue is not cleared yet: the last batch is the one in progress
C36_InProgress ==
    \/ pc[Main] = "replay"
    \/ pc[Main] = "clear_buffer" /\ message_buffer # <<>>

\* the batches of the replays that are over
C36_Fired ==
    IF C36_InProgress THEN SubSeq(batches, 1, Len(batches) - 1) ELSE batches

\* where batch k starts in the accepted stream if the batches are put end
\* to end
C36_Start(k) == Len(Flatten(SubSeq(batches, 1, k - 1))) + 1

C36_Concatenation ==
    /\ Flatten(C36_Fired) \o message_buffer = accepted
    /\ C36_InProgress => IsPrefix(batches[Len(batches)], message_buffer)
    /\ \A k \in DOMAIN batches :
          batches[k] = SubSeq(accepted, C36_Start(k), C36_Start(k) + Len(batches[k]) - 1)

\* a step that appends a packet
C36_AcceptStep ==
    accepted' # accepted =>
        /\ ~C36_InProgress
        /\ batches' = batches
        /\ message_buffer' = Append(message_buffer, accepted'[Len(accepted')])

\* C36: at every point of every interleaving of accepts and polls, the
\* batches of the replays that fired, in the order they fired, followed by
\* the queue, are the accepted packets in the order they were appended;
\* every batch is a contiguous run of the accepted stream, the batches do
\* not overlap; and no packet is appended while a replay is in progress: a
\* packet delivered during a replay is appended after the queue is cleared
\* and so belongs to the next batch.
C36_BatchesPartition == []C36_Concatenation /\ [][C36_AcceptStep]_vars

\* a second replay is in progress, the first batch is over, and a packet
\* delivered in the meantime waits for the lock
C36_Witness ==
    /\ Len(batches) = 2
    /\ batches[1] # <<>>
    /\ pc[Main] = "replay"
    /\ idx = 2
    /\ \E p \in Producers : pc[p] = "acquire"

(***************************************************************************)
(* C37. Queued packets decode.                                             *)
(***************************************************************************)
C37_QueuedPacketsValid ==
    \A i \in DOMAIN message_buffer :
        /\ Len(message_buffer[i]) >= HEADER_SIZE
        /\ ~FromBytesRaises(message_buffer[i])
        /\ from_bytes(message_buffer[i]).uid # RelayUid

\* an iteration of the replay loop
C37_ReplayStep == pc[Main] = "replay" /\ idx' = idx + 1

C37_DecodeSucceeds ==
    C37_ReplayStep =>
        /\ ~FromBytesRaises(message_buffer[idx])
        /\ from_bytes(message_buffer[idx]).uid # RelayUid

\* C37: every packet in the queue (all are appended by _on_message) has at
\* least 22 bytes and a uid different from the relay uid, and the header
\* decode of every iteration of the replay loop succeeds.
C37_QueuedPacketsDecode == []C37_QueuedPacketsValid /\ [][C37_DecodeSucceeds]_vars

\* a short packet and one of the relay's own were delivered and dropped, a
\* third packet was queued and the replay has decoded and published it
C37_Witness ==
    /\ errors = 1
    /\ ignored = 1
    /\ pc[Main] = "replay"
    /\ idx = 2
    /\ Len(message_buffer) = 1
    /\ Len(published) = 1

(***************************************************************************)
(* C38. Packets pending at shutdown are dropped.                           *)
(***************************************************************************)
\* a step of a stop() call
C38_StopStep == stop_pc # "none" /\ stop_pc' # stop_pc

\* a call of mqtt_client.publish returns
C38_PublishStep == published' # published

C38_StopLeavesQueue ==
    /\ C38_StopStep =>
          /\ UNCHANGED <<message_buffer, last_message_time, published, batches, idx>>
          /\ pc'[Main] \in {pc[Main], "exited"}
    /\ C38_PublishStep => (running \/ client = "stopped")
    /\ pc[Main] = "exited" =>
          UNCHANGED <<message_buffer, last_message_time, published, batches>>

C39_PassedCheck ==
    {s \in Starters : daemon_pc[s].at \notin {"start", "refused", "exited"}}

\* the PID file holds the process id of a daemon that is running
C39_Written ==
    \E r \in Starters :
        /\ daemon_pc[r].at = "running"
        /\ get_pid_from_file(pid_file) = Some(DaemonPid[r])

C39_LaterStartRefused ==
    \A s \in Starters :
        (C39_Written /\ daemon_pc[s].at = "start" /\ daemon_pc'[s].at # "start") =>
            daemon_pc'[s].at = "refused"

\* C39: in every interleaving of two Daemon.start calls on the same PID
\* file, at most one process passes the PID-file check and goes on to run
\* the target function; and once a start has written its process id, a
\* start that makes its check afterwards ends with an error before it
\* daemonizes.
C39_SingleInstance ==
    /\ [](Cardinality(C39_PassedCheck) <= 1)
    /\ [][C39_LaterStartRefused]_vars

====
